---------------------------- MODULE Spec2Model ----------------------------
(***************************************************************************)
(* Model of the account codec of the Squads v4 client                      *)
(* (src/src/accounts.rs, src/src/types.rs).                                *)
(*                                                                         *)
(* A byte buffer is a sequence of numbers 0..255.  The code's byte offsets *)
(* are 0-based; At and Slice translate them to TLA+'s 1-based sequences.   *)
(* Integers wider than 16 bits are kept as little-endian 16-bit limbs, so  *)
(* that every u32, u64 and i64 bit pattern has an exact value in the model *)
(* (TLC's own integers are 32-bit signed).                                 *)
(***************************************************************************)
EXTENDS Integers, Sequences, FiniteSets, TLC

\* ------------------------------------------------------------------ bounds

\* Longest members list of a Multisig record the caller builds.
MaxMembers == 2
\* Longest list (approved, rejected, actions, ...) of the derived records.
MaxItems == 1
\* Longest list of Permission flags handed to Permissions::from_vec.
MaxFlags == 3
\* Longest list of instructions handed to TransactionMessage::try_compile.
MaxInstructions == 2
\* Most spending-limit accounts handed to config_transaction_execute.
MaxSpendingLimits == 2
\* Most account keys of a VaultTransactionMessage whose indexes are classified.
MaxKeys == 3

\* ------------------------------------------------------- program constants

\* accounts.rs: "let mut offset = 8; // Skip discriminator"
DISCRIMINATOR_LEN == 8
\* solana Pubkey: 32 bytes (data[offset..offset+32])
PUBKEY_BYTES == 32
\* accounts.rs: "if offset + 33 > data.len()"
MEMBER_BYTES == 33

\* ------------------------------------------------------------------- bytes

\* data[off] of the code (0-based).
At(data, off) == data[off + 1]

\* data[from..to] of the code (0-based, to exclusive).
Slice(data, from, to) == SubSeq(data, from + 1, to)

\* &[0u8; n]
Zeros(n) == [i \in 1..n |-> 0]

\* The two bytes taken in big-endian order.
U16FromBe(b) == 256 * b[1] + b[2]

\* u16::from_le_bytes / u16::to_le_bytes
U16FromLe(b) == b[1] + 256 * b[2]
U16ToLe(v) == <<v % 256, v \div 256>>

\* u32::from_le_bytes / to_le_bytes, the value as two 16-bit limbs.
U32FromLe(b) == <<U16FromLe(SubSeq(b, 1, 2)), U16FromLe(SubSeq(b, 3, 4))>>
U32ToLe(v) == U16ToLe(v[1]) \o U16ToLe(v[2])

\* u64::from_le_bytes / to_le_bytes (and i64: the same 64 bits), four limbs.
U64FromLe(b) ==
    <<U16FromLe(SubSeq(b, 1, 2)), U16FromLe(SubSeq(b, 3, 4)),
      U16FromLe(SubSeq(b, 5, 6)), U16FromLe(SubSeq(b, 7, 8))>>
U64ToLe(v) == U16ToLe(v[1]) \o U16ToLe(v[2]) \o U16ToLe(v[3]) \o U16ToLe(v[4])

\* "as usize" of a u32 list length.  Lengths of 2^31 and more are clamped to
\* 2^31 - 1: every buffer of the model is far shorter than either.
AsUsize(v) == IF v[2] >= 32768 THEN 32767 * 65536 + 65535 ELSE v[2] * 65536 + v[1]

\* "len as u32" of a list the caller built.
LenAsU32(n) == <<n % 65536, n \div 65536>>

\* ----------------------------------------------------------------- results

\* The byte strings of a list, one after the other.
RECURSIVE Concat(_)
Concat(seqs) == IF seqs = <<>> THEN <<>> ELSE Head(seqs) \o Concat(Tail(seqs))

Ok(v, off) == [tag |-> "Ok", value |-> v, offset |-> off]
Err(e) == [tag |-> "Err", error |-> e]
\* The result of a call that returns a value and reads no buffer.
Returned(v) == [tag |-> "Ok", value |-> v]
\* An index or slice out of range: the thread panics, no value is returned.
Panic == [tag |-> "Panic"]
\* A call whose allocation request is larger than the memory of most machines:
\* the allocator refuses it and the process aborts, or grants it and the call
\* goes on to outcome r.
AbortedUnlessGranted(r) == [tag |-> "AbortedUnlessGranted", granted |-> r]
\* What a call with outcome r can return; "Abort" is Rust's handle_alloc_error:
\* the allocator refused a request and the process aborts.
Outcomes(r) ==
    IF r.tag = "AbortedUnlessGranted" THEN {[tag |-> "Abort"], r.granted} ELSE {r}
NotRun == [tag |-> "NotRun"]

\* The messages of the std::io::Error values (all of kind InvalidData):
\*   "AccountDataTooShort"      accounts.rs "Account data too short"
\*   "NotEnoughBytesForMember"  accounts.rs "Not enough bytes for member"
\*   "InvalidKey"               accounts.rs "Invalid create_key" and the like
\*   "UnexpectedLength"         borsh "Unexpected length of input"
\*   "UnexpectedVariant"        borsh "Unexpected variant tag"
\*   "InvalidOption"            borsh "Invalid Option representation"

\* ------------------------------------------------------------------ values

\* Option<T>
None == [some |-> FALSE]
Some(v) == [some |-> TRUE, value |-> v]

\* Pubkey::try_from(&[u8]): fails unless the slice holds exactly 32 bytes.
PubkeyTryFrom(bytes) == Len(bytes) = PUBKEY_BYTES

\* Permissions::from_mask
from_mask(mask) == [mask |-> mask]

\* "Initiate = 1 << 0, Vote = 1 << 1, Execute = 1 << 2": "p as u8"
PermissionAsU8(p) ==
    CASE p = "Initiate" -> 1
      [] p = "Vote" -> 2
      [] p = "Execute" -> 4

\* Bit i of a u8, and the operators | and & of two u8.
BitOfU8(v, i) == (v \div (2 ^ i)) % 2

BitOrU8(a, b) ==
    LET B(i) == IF BitOfU8(a, i) = 1 \/ BitOfU8(b, i) = 1 THEN 2 ^ i ELSE 0
    IN  B(0) + B(1) + B(2) + B(3) + B(4) + B(5) + B(6) + B(7)

BitAndU8(a, b) ==
    LET B(i) == IF BitOfU8(a, i) = 1 /\ BitOfU8(b, i) = 1 THEN 2 ^ i ELSE 0
    IN  B(0) + B(1) + B(2) + B(3) + B(4) + B(5) + B(6) + B(7)

\* "for p in permissions { mask |= *p as u8; }"
RECURSIVE from_vec_mask(_, _)
from_vec_mask(permissions, mask) ==
    IF permissions = <<>> THEN mask
    ELSE from_vec_mask(Tail(permissions), BitOrU8(mask, PermissionAsU8(Head(permissions))))

\* A from_vec that adds the flags up.
RECURSIVE SumOfFlags(_)
SumOfFlags(permissions) ==
    IF permissions = <<>> THEN 0
    ELSE (PermissionAsU8(Head(permissions)) + SumOfFlags(Tail(permissions))) % 256

from_vec_sum(permissions) == [mask |-> SumOfFlags(permissions)]

\* Permissions::from_vec(permissions)
from_vec(permissions) == [mask |-> from_vec_mask(permissions, 0)]

\* Permissions::has_initiate / has_vote / has_execute
has_initiate(p) == BitAndU8(p.mask, PermissionAsU8("Initiate")) # 0
has_vote(p) == BitAndU8(p.mask, PermissionAsU8("Vote")) # 0
has_execute(p) == BitAndU8(p.mask, PermissionAsU8("Execute")) # 0

\* Permissions::full() and Permissions::none()
full ==
    [mask |-> BitOrU8(BitOrU8(PermissionAsU8("Initiate"), PermissionAsU8("Vote")),
                      PermissionAsU8("Execute"))]
none == [mask |-> 0]


\* ------------------------------------------------- Multisig::try_from_slice

\* The "for _ in 0..members_len" loop: each member is a 32-byte key and a
\* 1-byte permission mask; a member the buffer cannot hold is an error.
RECURSIVE ReadMembers(_, _, _, _)
ReadMembers(data, offset, remaining, members) ==
    IF remaining = 0 THEN Ok(members, offset)
    ELSE IF offset + MEMBER_BYTES > Len(data) THEN Err("NotEnoughBytesForMember")
    ELSE IF ~PubkeyTryFrom(Slice(data, offset, offset + 32)) THEN Err("InvalidKey")
    ELSE LET key == Slice(data, offset, offset + 32)
             permissions_mask == At(data, offset + 32)
         IN  ReadMembers(data, offset + 33, remaining - 1,
                         Append(members, [key |-> key,
                                          permissions |-> from_mask(permissions_mask)]))

\* The end of Multisig::try_from_slice: bump at off_bump, the u32 members
\* count, the members, and the record.
\* Vec::with_capacity(members_len) asks the allocator for 33 * members_len
\* bytes before the loop looks at the buffer: a count of 2^31 - 1 and more is a
\* request of 70 GB and more, which the allocator grants or refuses.  A granted
\* request costs nothing, and the loop fails at the first member the buffer
\* does not hold.
MultisigReadTail(data, fixed, rent_collector, off_bump) ==
    LET off_len == off_bump + 1
        off_members == off_len + 4
    IN  IF off_bump >= Len(data) THEN Panic
        ELSE IF off_len + 3 >= Len(data) THEN Panic
        ELSE LET bump == At(data, off_bump)
                 members_len == AsUsize(U32FromLe(Slice(data, off_len, off_len + 4)))
                 read == ReadMembers(data, off_members, members_len, <<>>)
                 done ==
                   IF read.tag = "Ok"
                   THEN Ok([create_key |-> fixed.create_key,
                            config_authority |-> fixed.config_authority,
                            threshold |-> fixed.threshold,
                            time_lock |-> fixed.time_lock,
                            transaction_index |-> fixed.transaction_index,
                            stale_transaction_index |-> fixed.stale_transaction_index,
                            rent_collector |-> rent_collector,
                            bump |-> bump,
                            members |-> read.value], read.offset)
                   ELSE read
             IN  IF members_len >= 32767 * 65536 + 65535
                 THEN AbortedUnlessGranted(done)
                 ELSE done

\* A decoder that expects the 32 placeholder bytes of an absent key.
MultisigAfterFlagSkipsPadding(data, fixed, has_rent_collector, offset) ==
    IF offset + 32 > Len(data) THEN Panic
    ELSE MultisigReadTail(data, fixed,
                          IF has_rent_collector = 1
                          THEN Some(Slice(data, offset, offset + 32))
                          ELSE None,
                          offset + 32)

\* "let rent_collector = if has_rent_collector == 1 { .. } else { None }": the
\* 32 bytes of the key are read, and skipped, only when the flag is 1; with any
\* other flag bump is the byte right after the flag.
MultisigAfterFlag(data, fixed, has_rent_collector, offset) ==
    IF has_rent_collector = 1
    THEN IF offset + 32 > Len(data) THEN Panic
         ELSE IF ~PubkeyTryFrom(Slice(data, offset, offset + 32)) THEN Err("InvalidKey")
         ELSE MultisigReadTail(data, fixed, Some(Slice(data, offset, offset + 32)),
                               offset + 32)
    ELSE MultisigReadTail(data, fixed, None, offset)

\* Multisig::try_from_slice.  The reads before the members loop index the
\* buffer unchecked: the first one past the end of the buffer panics.
MultisigTryFromSlice(data) ==
    IF Len(data) < DISCRIMINATOR_LEN THEN Err("AccountDataTooShort")
    ELSE LET off_create_key == DISCRIMINATOR_LEN
             off_config_authority == off_create_key + 32
             off_threshold == off_config_authority + 32
             off_time_lock == off_threshold + 2
             off_transaction_index == off_time_lock + 4
             off_stale_transaction_index == off_transaction_index + 8
             off_has_rent_collector == off_stale_transaction_index + 8
         IN  IF off_create_key + 32 > Len(data) THEN Panic
             ELSE IF ~PubkeyTryFrom(Slice(data, off_create_key, off_create_key + 32))
                  THEN Err("InvalidKey")
             ELSE IF off_config_authority + 32 > Len(data) THEN Panic
             ELSE IF ~PubkeyTryFrom(Slice(data, off_config_authority,
                                          off_config_authority + 32))
                  THEN Err("InvalidKey")
             ELSE IF off_threshold + 1 >= Len(data) THEN Panic
             ELSE IF off_time_lock + 3 >= Len(data) THEN Panic
             ELSE IF off_transaction_index + 7 >= Len(data) THEN Panic
             ELSE IF off_stale_transaction_index + 7 >= Len(data) THEN Panic
             ELSE IF off_has_rent_collector >= Len(data) THEN Panic
             ELSE MultisigAfterFlag(data,
                    [create_key |-> Slice(data, off_create_key, off_create_key + 32),
                     config_authority |->
                         Slice(data, off_config_authority, off_config_authority + 32),
                     threshold |-> U16FromLe(Slice(data, off_threshold, off_threshold + 2)),
                     time_lock |-> U32FromLe(Slice(data, off_time_lock, off_time_lock + 4)),
                     transaction_index |->
                         U64FromLe(Slice(data, off_transaction_index,
                                         off_transaction_index + 8)),
                     stale_transaction_index |->
                         U64FromLe(Slice(data, off_stale_transaction_index,
                                         off_stale_transaction_index + 8))],
                    At(data, off_has_rent_collector),
                    off_has_rent_collector + 1)

\* --------------------------------------------- impl BorshSerialize for Multisig

\* An encoder that writes nothing after the flag of an absent key.
MultisigSerializeRentCollectorNoPadding(rent_collector) ==
    IF rent_collector.some THEN <<1>> \o rent_collector.value ELSE <<0>>

\* The rent_collector arm: the flag, then the key or 32 zero bytes.
MultisigSerializeRentCollector(rent_collector) ==
    IF rent_collector.some
    THEN <<1>> \o rent_collector.value
    ELSE <<0>> \o Zeros(32)

\* Vec<Member>::serialize: a u32 count, then key and mask of each member.
RECURSIVE SerializeMembers(_)
SerializeMembers(members) ==
    IF members = <<>> THEN <<>>
    ELSE Head(members).key \o <<Head(members).permissions.mask>>
         \o SerializeMembers(Tail(members))

MultisigSerialize(m) ==
    m.create_key \o m.config_authority \o U16ToLe(m.threshold) \o U32ToLe(m.time_lock)
    \o U64ToLe(m.transaction_index) \o U64ToLe(m.stale_transaction_index)
    \o MultisigSerializeRentCollector(m.rent_collector)
    \o <<m.bump>>
    \o U32ToLe(LenAsU32(Len(m.members))) \o SerializeMembers(m.members)

\* ------------------------------------- #[derive(BorshSerialize, BorshDeserialize)]
\* The derived codec of a type follows the type's declaration, so the model
\* keeps each declaration as a schema and interprets it:
\*   [k |-> "u8" | "u16" | "u32" | "u64" | "i64" | "pubkey"]
\*   [k |-> "vec", of |-> T]                Vec<T>: u32 count, then the items
\*   [k |-> "smallvec_u8", of |-> T]        SmallVecU8<T>: u8 count, the items
\*   [k |-> "smallvec_u16", of |-> T]       SmallVecU16<T>: u16 count, the items
\*   [k |-> "option", of |-> T]             Option<T>: flag 0, or flag 1 and T
\*   [k |-> "enum", variants |-> <<..>>]    u8 ordinal, then the variant's fields
\*   [k |-> "struct", fields |-> <<..>>]    the fields in declaration order
\* A variant is <<name, fields>>, a field is <<name, T>>.  A struct value is a
\* record of its fields, an enum value is [variant |-> name, fields |-> record].

U8T == [k |-> "u8"]
U16T == [k |-> "u16"]
U32T == [k |-> "u32"]
U64T == [k |-> "u64"]
I64T == [k |-> "i64"]
PubkeyT == [k |-> "pubkey"]
VecT(T) == [k |-> "vec", of |-> T]
OptionT(T) == [k |-> "option", of |-> T]
EnumT(variants) == [k |-> "enum", variants |-> variants]
StructT(fields) == [k |-> "struct", fields |-> fields]

\* Width in bytes of the fixed-width scalars.
ScalarBytes(T) ==
    CASE T.k = "u8" -> 1
      [] T.k = "u16" -> 2
      [] T.k = "u32" -> 4
      [] T.k \in {"u64", "i64"} -> 8
      [] T.k = "pubkey" -> PUBKEY_BYTES

ScalarFromLe(T, b) ==
    CASE T.k = "u8" -> b[1]
      [] T.k = "u16" -> U16FromLe(b)
      [] T.k = "u32" -> U32FromLe(b)
      [] T.k \in {"u64", "i64"} -> U64FromLe(b)
      [] T.k = "pubkey" -> b

ScalarToLe(T, v) ==
    CASE T.k = "u8" -> <<v>>
      [] T.k = "u16" -> U16ToLe(v)
      [] T.k = "u32" -> U32ToLe(v)
      [] T.k \in {"u64", "i64"} -> U64ToLe(v)
      [] T.k = "pubkey" -> v

IsScalar(T) == T.k \in {"u8", "u16", "u32", "u64", "i64", "pubkey"}

\* The ordinal (0-based) of a variant name in an enum's declaration.
VariantIndex(variants, name) ==
    (CHOOSE i \in 1..Len(variants) : variants[i][1] = name) - 1

\* message.rs: "let len = self.0.len() as u8; len.serialize(writer)?": the
\* count byte of a SmallVecU8.  The cast keeps the low 8 bits of the length.
SmallVecU8Prefix(n) == <<n % 256>>

\* A count written high byte first.
SmallVecU16PrefixBe(n) == <<(n % 65536) \div 256, n % 256>>

\* message.rs: "let len = self.0.len() as u16; len.serialize(writer)?": the
\* two count bytes of a SmallVecU16, the low 16 bits of the length.
SmallVecU16Prefix(n) == U16ToLe(n % 65536)

RECURSIVE BorshSerialize(_, _)
RECURSIVE SerializeItems(_, _)
RECURSIVE SerializeFields(_, _)

\* BorshSerialize::serialize of a value v of type T: the bytes written.
BorshSerialize(T, v) ==
    IF IsScalar(T) THEN ScalarToLe(T, v)
    ELSE IF T.k = "vec" THEN U32ToLe(LenAsU32(Len(v))) \o SerializeItems(T.of, v)
    ELSE IF T.k = "smallvec_u8"
         THEN SmallVecU8Prefix(Len(v)) \o SerializeItems(T.of, v)
    ELSE IF T.k = "smallvec_u16"
         THEN SmallVecU16Prefix(Len(v)) \o SerializeItems(T.of, v)
    ELSE IF T.k = "option"
         THEN IF v.some THEN <<1>> \o BorshSerialize(T.of, v.value) ELSE <<0>>
    ELSE IF T.k = "enum"
         THEN LET idx == VariantIndex(T.variants, v.variant)
              IN  <<idx>> \o SerializeFields(T.variants[idx + 1][2], v.fields)
    ELSE SerializeFields(T.fields, v)

\* "for item in &self.0 { item.serialize(writer)?; }": a list of u8 is its
\* own bytes.
SerializeItems(T, items) ==
    IF items = <<>> THEN <<>>
    ELSE IF T.k = "u8" THEN items
    ELSE BorshSerialize(T, Head(items)) \o SerializeItems(T, Tail(items))

SerializeFields(fields, v) ==
    IF fields = <<>> THEN <<>>
    ELSE BorshSerialize(Head(fields)[2], v[Head(fields)[1]])
         \o SerializeFields(Tail(fields), v)

RECURSIVE BorshDeserialize(_, _, _)
RECURSIVE DeserializeItems(_, _, _, _, _)
RECURSIVE DeserializeFields(_, _, _, _)

\* An enum reader that takes an unknown ordinal for the first variant.
DeserializeVariantDefaulting(variants, tag, data, offset) ==
    LET known == IF tag < Len(variants) THEN tag ELSE 0
        r == DeserializeFields(variants[known + 1][2], data, offset, <<>>)
    IN  IF r.tag = "Ok"
        THEN Ok([variant |-> variants[known + 1][1], fields |-> r.value], r.offset)
        ELSE r

\* The derived enum reader's match on the ordinal: a known variant's fields
\* are read, any other ordinal is an error.
DeserializeVariant(variants, tag, data, offset) ==
    IF tag < Len(variants)
    THEN LET r == DeserializeFields(variants[tag + 1][2], data, offset, <<>>)
         IN  IF r.tag = "Ok"
             THEN Ok([variant |-> variants[tag + 1][1], fields |-> r.value], r.offset)
             ELSE r
    ELSE Err("UnexpectedVariant")

\* Option<T>::deserialize_reader after the flag was read.
DeserializeOption(T, flag, data, offset) ==
    IF flag = 0 THEN Ok(None, offset)
    ELSE IF flag = 1
         THEN LET r == BorshDeserialize(T, data, offset)
              IN  IF r.tag = "Ok" THEN Ok(Some(r.value), r.offset) ELSE r
    ELSE Err("InvalidOption")

\* BorshDeserialize::deserialize_reader of a T from data at offset: the value
\* and the offset after it, or an error.  A read past the end of the buffer is
\* an error ("Unexpected length of input"), never a panic.
BorshDeserialize(T, data, offset) ==
    IF IsScalar(T)
    THEN IF offset + ScalarBytes(T) > Len(data) THEN Err("UnexpectedLength")
         ELSE Ok(ScalarFromLe(T, Slice(data, offset, offset + ScalarBytes(T))),
                 offset + ScalarBytes(T))
    ELSE IF T.k = "vec"
         THEN IF offset + 4 > Len(data) THEN Err("UnexpectedLength")
              ELSE DeserializeItems(T.of, data, offset + 4,
                                    AsUsize(U32FromLe(Slice(data, offset, offset + 4))),
                                    <<>>)
    ELSE IF T.k = "smallvec_u8"
         THEN IF offset + 1 > Len(data) THEN Err("UnexpectedLength")
              ELSE DeserializeItems(T.of, data, offset + 1, At(data, offset), <<>>)
    ELSE IF T.k = "smallvec_u16"
         THEN IF offset + 2 > Len(data) THEN Err("UnexpectedLength")
              ELSE DeserializeItems(T.of, data, offset + 2,
                                    U16FromLe(Slice(data, offset, offset + 2)), <<>>)
    ELSE IF T.k = "option"
         THEN IF offset + 1 > Len(data) THEN Err("UnexpectedLength")
              ELSE DeserializeOption(T.of, At(data, offset), data, offset + 1)
    ELSE IF T.k = "enum"
         THEN IF offset + 1 > Len(data) THEN Err("UnexpectedLength")
              ELSE DeserializeVariant(T.variants, At(data, offset), data, offset + 1)
    ELSE DeserializeFields(T.fields, data, offset, <<>>)

\* The items of a Vec<T> after its count.  Items of a fixed-width scalar type
\* are read in one step: the reads succeed exactly when the buffer holds
\* count * width more bytes, and the first one that does not fit is the error.
DeserializeItems(T, data, offset, remaining, items) ==
    IF remaining = 0 THEN Ok(items, offset)
    ELSE IF IsScalar(T)
         THEN IF remaining > (Len(data) - offset) \div ScalarBytes(T)
              THEN Err("UnexpectedLength")
              ELSE Ok(items \o [i \in 1..remaining |->
                         ScalarFromLe(T, Slice(data, offset + (i - 1) * ScalarBytes(T),
                                               offset + i * ScalarBytes(T)))],
                      offset + remaining * ScalarBytes(T))
    ELSE LET r == BorshDeserialize(T, data, offset)
         IN  IF r.tag = "Ok"
             THEN DeserializeItems(T, data, r.offset, remaining - 1,
                                   Append(items, r.value))
             ELSE r

DeserializeFields(fields, data, offset, acc) ==
    IF fields = <<>> THEN Ok(acc, offset)
    ELSE LET r == BorshDeserialize(Head(fields)[2], data, offset)
         IN  IF r.tag = "Ok"
             THEN DeserializeFields(Tail(fields), data, r.offset,
                                    acc @@ (Head(fields)[1] :> r.value))
             ELSE r

\* ------------------------------------------------------------ declarations

\* types.rs: struct Permissions { mask: u8 }
PermissionsSchema == StructT(<< <<"mask", U8T>> >>)

\* types.rs: struct Member { key, permissions }
MemberSchema == StructT(<< <<"key", PubkeyT>>, <<"permissions", PermissionsSchema>> >>)

\* types.rs: enum ProposalStatus, every variant { timestamp: i64 }
ProposalStatusSchema ==
    EnumT(<< <<"Draft", << <<"timestamp", I64T>> >> >>,
             <<"Active", << <<"timestamp", I64T>> >> >>,
             <<"Rejected", << <<"timestamp", I64T>> >> >>,
             <<"Approved", << <<"timestamp", I64T>> >> >>,
             <<"Executed", << <<"timestamp", I64T>> >> >>,
             <<"Cancelled", << <<"timestamp", I64T>> >> >> >>)

\* types.rs: enum Period { Day, Week, Month }
PeriodSchema == EnumT(<< <<"Day", <<>> >>, <<"Week", <<>> >>, <<"Month", <<>> >> >>)

\* types.rs: enum ConfigAction
ConfigActionSchema ==
    EnumT(<< <<"AddMember", << <<"new_member", MemberSchema>> >> >>,
             <<"RemoveMember", << <<"old_member", PubkeyT>> >> >>,
             <<"ChangeThreshold", << <<"new_threshold", U16T>> >> >>,
             <<"SetTimeLock", << <<"new_time_lock", U32T>> >> >>,
             <<"AddSpendingLimit",
               << <<"create_key", PubkeyT>>, <<"vault_index", U8T>>,
                  <<"mint", PubkeyT>>, <<"amount", U64T>>, <<"period", PeriodSchema>>,
                  <<"members", VecT(PubkeyT)>>, <<"destinations", VecT(PubkeyT)>> >> >>,
             <<"RemoveSpendingLimit", << <<"spending_limit", PubkeyT>> >> >>,
             <<"SetConfigAuthority",
               << <<"new_config_authority", OptionT(PubkeyT)>> >> >>,
             <<"SetRentCollector",
               << <<"new_rent_collector", OptionT(PubkeyT)>> >> >> >>)

\* accounts.rs: struct Proposal
ProposalSchema ==
    StructT(<< <<"multisig", PubkeyT>>, <<"transaction_index", U64T>>,
               <<"status", ProposalStatusSchema>>, <<"bump", U8T>>,
               <<"approved", VecT(PubkeyT)>>, <<"rejected", VecT(PubkeyT)>>,
               <<"cancelled", VecT(PubkeyT)>> >>)

\* accounts.rs: struct CompiledInstruction
CompiledInstructionSchema ==
    StructT(<< <<"program_id_index", U8T>>, <<"account_indexes", VecT(U8T)>>,
               <<"data", VecT(U8T)>> >>)

\* accounts.rs: struct MessageAddressTableLookup
MessageAddressTableLookupSchema ==
    StructT(<< <<"account_key", PubkeyT>>, <<"writable_indexes", VecT(U8T)>>,
               <<"readonly_indexes", VecT(U8T)>> >>)

\* accounts.rs: struct VaultTransactionMessage
VaultTransactionMessageSchema ==
    StructT(<< <<"num_signers", U8T>>, <<"num_writable_signers", U8T>>,
               <<"num_writable_non_signers", U8T>>,
               <<"account_keys", VecT(PubkeyT)>>,
               <<"instructions", VecT(CompiledInstructionSchema)>>,
               <<"address_table_lookups", VecT(MessageAddressTableLookupSchema)>> >>)

\* accounts.rs: struct VaultTransaction
VaultTransactionSchema ==
    StructT(<< <<"multisig", PubkeyT>>, <<"creator", PubkeyT>>, <<"index", U64T>>,
               <<"bump", U8T>>, <<"vault_index", U8T>>, <<"vault_bump", U8T>>,
               <<"ephemeral_signer_bumps", VecT(U8T)>>,
               <<"message", VaultTransactionMessageSchema>> >>)

\* accounts.rs: struct ConfigTransaction
ConfigTransactionSchema ==
    StructT(<< <<"multisig", PubkeyT>>, <<"creator", PubkeyT>>, <<"index", U64T>>,
               <<"bump", U8T>>, <<"actions", VecT(ConfigActionSchema)>> >>)

\* accounts.rs: struct ProgramConfig
ProgramConfigSchema ==
    StructT(<< <<"authority", PubkeyT>>, <<"multisig_creation_fee", U64T>>,
               <<"treasury", PubkeyT>> >>)

\* accounts.rs: struct SpendingLimit
SpendingLimitSchema ==
    StructT(<< <<"multisig", PubkeyT>>, <<"create_key", PubkeyT>>,
               <<"vault_index", U8T>>, <<"mint", PubkeyT>>, <<"amount", U64T>>,
               <<"period", PeriodSchema>>, <<"members", VecT(PubkeyT)>>,
               <<"destinations", VecT(PubkeyT)>>, <<"remaining_amount", U64T>>,
               <<"last_reset", I64T>>, <<"bump", U8T>> >>)

\* message.rs: struct CompiledInstruction
MsgCompiledInstructionSchema ==
    StructT(<< <<"program_id_index", U8T>>,
               <<"account_indexes", [k |-> "smallvec_u8", of |-> U8T]>>,
               <<"data", [k |-> "smallvec_u16", of |-> U8T]>> >>)

\* message.rs: struct MessageAddressTableLookup
MsgAddressTableLookupSchema ==
    StructT(<< <<"account_key", PubkeyT>>,
               <<"writable_indexes", [k |-> "smallvec_u8", of |-> U8T]>>,
               <<"readonly_indexes", [k |-> "smallvec_u8", of |-> U8T]>> >>)

\* message.rs: struct TransactionMessage
TransactionMessageSchema ==
    StructT(<< <<"num_signers", U8T>>, <<"num_writable_signers", U8T>>,
               <<"num_writable_non_signers", U8T>>,
               <<"account_keys", [k |-> "smallvec_u8", of |-> PubkeyT]>>,
               <<"instructions",
                 [k |-> "smallvec_u8", of |-> MsgCompiledInstructionSchema]>>,
               <<"address_table_lookups",
                 [k |-> "smallvec_u8", of |-> MsgAddressTableLookupSchema]>> >>)

\* ------------------------------------------------------- try_from_slice (derived)

\* A try_from_slice that checks the length and parses from offset 0.
DerivedTryFromSliceNoSkip(T, data) ==
    IF Len(data) < DISCRIMINATOR_LEN THEN Err("AccountDataTooShort")
    ELSE BorshDeserialize(T, data, 0)

\* A try_from_slice that, like borsh::from_slice, rejects bytes left over.
DerivedTryFromSliceStrict(T, data) ==
    IF Len(data) < DISCRIMINATOR_LEN THEN Err("AccountDataTooShort")
    ELSE LET r == BorshDeserialize(T, data, DISCRIMINATOR_LEN)
         IN  IF r.tag = "Ok" /\ r.offset # Len(data) THEN Err("NotAllBytesRead") ELSE r

\* A try_from_slice that accepts only the discriminators it knows.
DerivedTryFromSliceChecked(T, data) ==
    IF Len(data) < DISCRIMINATOR_LEN THEN Err("AccountDataTooShort")
    ELSE IF SubSeq(data, 1, DISCRIMINATOR_LEN)
              \notin {Zeros(DISCRIMINATOR_LEN), <<224, 116, 121, 186, 68, 161, 79, 236>>}
         THEN Err("DiscriminatorMismatch")
    ELSE BorshDeserialize(T, data, DISCRIMINATOR_LEN)

\* The try_from_slice shared by Proposal, VaultTransaction, ConfigTransaction,
\* ProgramConfig and SpendingLimit: "if data.len() < 8 { return Err(..) }",
\* then Self::deserialize(&mut &data[8..]); bytes left over are not looked at.
DerivedTryFromSlice(T, data) ==
    IF Len(data) < DISCRIMINATOR_LEN THEN Err("AccountDataTooShort")
    ELSE BorshDeserialize(T, data, DISCRIMINATOR_LEN)

\* <Type>::try_from_slice(data)
TryFromSlice(ty, data) ==
    CASE ty = "Multisig" -> MultisigTryFromSlice(data)
      [] ty = "Proposal" -> DerivedTryFromSlice(ProposalSchema, data)
      [] ty = "VaultTransaction" -> DerivedTryFromSlice(VaultTransactionSchema, data)
      [] ty = "ConfigTransaction" -> DerivedTryFromSlice(ConfigTransactionSchema, data)
      [] ty = "ProgramConfig" -> DerivedTryFromSlice(ProgramConfigSchema, data)
      [] ty = "SpendingLimit" -> DerivedTryFromSlice(SpendingLimitSchema, data)

\* borsh::to_vec(&record)
ToVec(ty, r) ==
    CASE ty = "Multisig" -> MultisigSerialize(r)
      [] ty = "Proposal" -> BorshSerialize(ProposalSchema, r)
      [] ty = "VaultTransaction" -> BorshSerialize(VaultTransactionSchema, r)
      [] ty = "ConfigTransaction" -> BorshSerialize(ConfigTransactionSchema, r)
      [] ty = "ProgramConfig" -> BorshSerialize(ProgramConfigSchema, r)
      [] ty = "SpendingLimit" -> BorshSerialize(SpendingLimitSchema, r)

\* -------------------------------------------------- records the caller builds

\* Pubkey number k: 32 bytes that differ from position to position, so that a
\* key read one byte off is another key.  Key(0) is Pubkey::default().
Key(k) == [i \in 1..PUBKEY_BYTES |-> IF k = 0 THEN 0 ELSE (32 * k + i) % 256]

KeyList(first, n) == [i \in 1..n |-> Key(first + i)]
ByteList(first, n) == [i \in 1..n |-> (first + 7 * i) % 256]

\* Member::with_permissions(key, Permissions::from_mask(mask))
MemberList(n) ==
    [i \in 1..n |-> [key |-> Key(2 + i),
                     permissions |-> from_mask(<<7, 1, 2, 0>>[((i - 1) % 4) + 1])]]

MultisigRecords ==
    { [create_key |-> Key(1),
       config_authority |-> Key(0),
       threshold |-> t,
       time_lock |-> <<3600, 1>>,
       transaction_index |-> <<5, 6, 7, 8>>,
       stale_transaction_index |-> <<4, 0, 0, 32768>>,
       rent_collector |-> rc,
       bump |-> b,
       members |-> MemberList(n)] :
      rc \in {None, Some(Key(2))}, b \in {0, 253}, n \in 0..MaxMembers,
      t \in {1, 258} }

ProposalRecords ==
    { [multisig |-> Key(1),
       transaction_index |-> <<1, 0, 0, 0>>,
       status |-> [variant |-> st, fields |-> [timestamp |-> <<513, 1027, 0, 65535>>]],
       bump |-> 255,
       approved |-> KeyList(1, n),
       rejected |-> KeyList(3, n),
       cancelled |-> KeyList(5, n)] :
      st \in {"Draft", "Active", "Rejected", "Approved", "Executed", "Cancelled"},
      n \in 0..MaxItems }

VaultTransactionRecords ==
    { [multisig |-> Key(1),
       creator |-> Key(2),
       index |-> <<7, 0, 0, 0>>,
       bump |-> 254,
       vault_index |-> 0,
       vault_bump |-> 253,
       ephemeral_signer_bumps |-> ByteList(250, n),
       message |->
         [num_signers |-> 1,
          num_writable_signers |-> 1,
          num_writable_non_signers |-> n,
          account_keys |-> KeyList(2, n + 1),
          instructions |->
            [i \in 1..n |-> [program_id_index |-> i,
                             account_indexes |-> ByteList(0, i),
                             data |-> ByteList(2, i + 1)]],
          address_table_lookups |->
            [i \in 1..n |-> [account_key |-> Key(6),
                             writable_indexes |-> ByteList(1, i),
                             readonly_indexes |-> ByteList(3, 0)]]]] :
      n \in 0..MaxItems }

ConfigActions ==
    { [variant |-> "AddMember",
       fields |-> [new_member |-> [key |-> Key(3), permissions |-> from_mask(7)]]],
      [variant |-> "RemoveMember", fields |-> [old_member |-> Key(3)]],
      [variant |-> "ChangeThreshold", fields |-> [new_threshold |-> 513]],
      [variant |-> "SetTimeLock", fields |-> [new_time_lock |-> <<86400 % 65536, 1>>]],
      [variant |-> "AddSpendingLimit",
       fields |-> [create_key |-> Key(4), vault_index |-> 1, mint |-> Key(0),
                   amount |-> <<51712, 15258, 0, 0>>,
                   period |-> [variant |-> "Week", fields |-> <<>>],
                   members |-> KeyList(2, 1), destinations |-> KeyList(4, 1)]],
      [variant |-> "RemoveSpendingLimit", fields |-> [spending_limit |-> Key(5)]],
      [variant |-> "SetConfigAuthority", fields |-> [new_config_authority |-> None]],
      [variant |-> "SetConfigAuthority", fields |-> [new_config_authority |-> Some(Key(6))]],
      [variant |-> "SetRentCollector", fields |-> [new_rent_collector |-> None]],
      [variant |-> "SetRentCollector", fields |-> [new_rent_collector |-> Some(Key(7))]] }

\* Lists of n actions: the same action n times.
ConfigTransactionRecords ==
    { [multisig |-> Key(1),
       creator |-> Key(2),
       index |-> <<2, 0, 0, 0>>,
       bump |-> 252,
       actions |-> [i \in 1..n |-> a]] :
      a \in ConfigActions, n \in 0..MaxItems }

ProgramConfigRecords ==
    { [authority |-> Key(1), multisig_creation_fee |-> fee, treasury |-> Key(2)] :
      fee \in {<<0, 0, 0, 0>>, <<57600, 1525, 0, 0>>} }

SpendingLimitRecords ==
    { [multisig |-> Key(1),
       create_key |-> Key(2),
       vault_index |-> 0,
       mint |-> Key(0),
       amount |-> <<16960, 15, 0, 0>>,
       period |-> [variant |-> p, fields |-> <<>>],
       members |-> KeyList(2, n),
       destinations |-> KeyList(4, n),
       remaining_amount |-> <<16960, 15, 0, 0>>,
       last_reset |-> <<65535, 65535, 65535, 65535>>,
       bump |-> 251] :
      p \in {"Day", "Week", "Month"}, n \in 0..MaxItems }

Records(ty) ==
    CASE ty = "Multisig" -> MultisigRecords
      [] ty = "Proposal" -> ProposalRecords
      [] ty = "VaultTransaction" -> VaultTransactionRecords
      [] ty = "ConfigTransaction" -> ConfigTransactionRecords
      [] ty = "ProgramConfig" -> ProgramConfigRecords
      [] ty = "SpendingLimit" -> SpendingLimitRecords

\* The 8 bytes in front of an account's fields.
Discriminators == {Zeros(DISCRIMINATOR_LEN), <<224, 116, 121, 186, 68, 161, 79, 236>>}

\* Offsets of the bytes overwritten to corrupt a buffer: the presence flag of
\* the Multisig's rent_collector and the two bytes after it, the high byte of
\* its members count (without and with a rent_collector key), the ordinal of
\* Proposal.status, the count and first ordinal of ConfigTransaction.actions
\* and the byte after it, SpendingLimit.period, and one byte of a scalar of
\* the two other records; and for every record the first and the last byte
\* of the discriminator.
CorruptOffsets(ty) ==
    {0, DISCRIMINATOR_LEN - 1} \cup
    CASE ty = "Multisig" -> {94, 95, 96, 99, 131}
      [] ty = "Proposal" -> {48}
      [] ty = "VaultTransaction" -> {83}
      [] ty = "ConfigTransaction" -> {81, 85, 86}
      [] ty = "ProgramConfig" -> {40}
      [] ty = "SpendingLimit" -> {113}

\* -------------------------------------------------------------------- state

VARIABLES
    ty,       \* the record type the caller works with
    rec,      \* the record the caller built
    data,     \* the account bytes handed to try_from_slice
    result,   \* what try_from_slice returned for data, NotRun before the call
    base,     \* data and result before the caller's last change of the buffer
    edit,     \* the caller's last change of the buffer
    pc,       \* where the caller is: "built", "serialized", "decoded", "edited", ...
    call,     \* the function the caller invoked last, with its arguments
    ret,      \* what that call returned
    seen,     \* the first address derivation of the run: its call and result
    curve,    \* which candidate addresses are points of the ed25519 curve
    rpc,      \* the requests the client sent to the RPC node, oldest first
    locals    \* what a suspended async call holds across its await points

vars == <<ty, rec, data, result, base, edit, pc, call, ret, seen, curve, rpc, locals>>

NoCall == [fn |-> "no call"]

\* No function was called yet.
CallsIdle ==
    /\ call = NoCall
    /\ ret = NotRun
    /\ seen = NoCall
    /\ curve = <<>>
    /\ rpc = <<>>
    /\ locals = <<>>

NoEdit == [op |-> "none", at |-> 0, val |-> 0]

Init ==
    /\ ty \in {"Multisig", "Proposal", "VaultTransaction", "ConfigTransaction",
              "ProgramConfig", "SpendingLimit"}
    /\ rec \in Records(ty)
    /\ data = <<>>
    /\ result = NotRun
    /\ base = [data |-> <<>>, result |-> NotRun]
    /\ edit = NoEdit
    /\ pc = "built"
    /\ CallsIdle

\* borsh::to_vec(&rec) behind an 8-byte discriminator: the account's bytes.
Serialize ==
    /\ pc = "built"
    /\ \E d \in Discriminators : data' = d \o ToVec(ty, rec)
    /\ pc' = "serialized"
    /\ UNCHANGED <<ty, rec, result, base, edit, call, ret, seen,
                 curve, rpc, locals>>

\* <Type>::try_from_slice(&data)
Decode ==
    /\ pc \in {"serialized", "edited"}
    /\ result' \in Outcomes(TryFromSlice(ty, data))
    /\ pc' = IF pc = "serialized" THEN "decoded" ELSE "redecoded"
    /\ UNCHANGED <<ty, rec, data, base, edit, call, ret, seen,
                 curve, rpc, locals>>

\* The caller cuts the buffer to its first n bytes.
Truncate ==
    /\ pc = "decoded"
    /\ \E n \in 0..(Len(data) - 1) :
          /\ data' = SubSeq(data, 1, n)
          /\ edit' = [op |-> "truncate", at |-> n, val |-> 0]
    /\ base' = [data |-> data, result |-> result]
    /\ result' = NotRun
    /\ pc' = "edited"
    /\ UNCHANGED <<ty, rec, call, ret, seen,
                 curve, rpc, locals>>

\* The account holds more bytes than the record's fields (a serialized
\* buffer, or one with a byte changed).
AppendTrailing ==
    /\ pc = "decoded" \/ (pc = "redecoded" /\ edit.op = "corrupt")
    /\ \E t \in {Zeros(40), <<255>>, <<1, 0, 0, 0, 9>>} :
          /\ data' = data \o t
          /\ edit' = [op |-> "append", at |-> Len(data), val |-> Len(t)]
    /\ base' = [data |-> data, result |-> result]
    /\ result' = NotRun
    /\ pc' = "edited"
    /\ UNCHANGED <<ty, rec, call, ret, seen,
                 curve, rpc, locals>>

\* One byte of the buffer holds another value.
Corrupt ==
    /\ pc = "decoded"
    /\ \E off \in CorruptOffsets(ty), v \in {0, 1, 2, 3, 6, 8, 255} :
          /\ off < Len(data)
          /\ At(data, off) # v
          /\ data' = [data EXCEPT ![off + 1] = v]
          /\ edit' = [op |-> "corrupt", at |-> off, val |-> v]
    /\ base' = [data |-> data, result |-> result]
    /\ result' = NotRun
    /\ pc' = "edited"
    /\ UNCHANGED <<ty, rec, call, ret, seen,
                 curve, rpc, locals>>

\* Multisig::num_voters: "self.members.iter().filter(|m|
\* m.permissions.has_vote()).count()"
num_voters(m) ==
    LET Votes(member) == has_vote(member.permissions)
    IN  Len(SelectSeq(m.members, Votes))

\* Multisig::cutoff: "self.num_voters().checked_sub(usize::from(self.threshold))
\* .unwrap().checked_add(1).unwrap()": checked_sub is None below zero and
\* unwrap of None panics; the sum stays far below usize::MAX.
cutoff(m) ==
    IF num_voters(m) < m.threshold THEN Panic
    ELSE Returned(num_voters(m) - m.threshold + 1)

\* The caller counts the voters of the Multisig that try_from_slice returned.
NumVoters ==
    /\ ty = "Multisig" /\ pc \in {"decoded", "redecoded"}
    /\ result.tag = "Ok"
    /\ call' = [fn |-> "num_voters"]
    /\ ret' = Returned(num_voters(result.value))
    /\ pc' = "used"
    /\ UNCHANGED <<ty, rec, data, result, base, edit, seen, curve, rpc, locals>>

\* The caller asks the Multisig that try_from_slice returned for its cutoff.
Cutoff ==
    /\ ty = "Multisig" /\ pc \in {"decoded", "redecoded"}
    /\ result.tag = "Ok"
    /\ call' = [fn |-> "cutoff"]
    /\ ret' = cutoff(result.value)
    /\ pc' = "used"
    /\ UNCHANGED <<ty, rec, data, result, base, edit, seen, curve, rpc, locals>>

\* <Multisig as BorshDeserialize>::deserialize(buf):
\*   let full_data = [&[0u8; 8][..], *buf].concat();
\*   Self::try_from_slice(&full_data)
MultisigDeserialize(buf) == MultisigTryFromSlice(Zeros(8) \o buf)

\* <Multisig as BorshDeserialize>::deserialize_reader(reader):
\*   reader.read_to_end(&mut data)?;
\*   Self::try_from_slice(&data)
\* for a reader that yields b without an I/O error.
MultisigDeserializeReader(b) == MultisigTryFromSlice(b)

\* A caller hands the same bytes to both entry points of the trait: the
\* fields of rec as borsh::to_vec writes them, or an account's bytes (the
\* fields behind a discriminator).
DeserializeMultisig ==
    /\ ty = "Multisig"
    /\ pc = "built"
    /\ \E b \in {ToVec(ty, rec)} \cup {d \o ToVec(ty, rec) : d \in Discriminators} :
         /\ call' = [fn |-> "Multisig::deserialize", b |-> b]
         /\ ret' \in {[slice |-> s, reader |-> r] :
                        s \in Outcomes(MultisigDeserialize(b)),
                        r \in Outcomes(MultisigDeserializeReader(b))}
    /\ pc' = "deserialized"
    /\ UNCHANGED <<ty, rec, data, result, base, edit, seen, curve, rpc, locals>>

Spec ==
    Init /\ [][Serialize \/ Decode \/ Truncate \/ AppendTrailing \/ Corrupt
                 \/ NumVoters \/ Cutoff \/ DeserializeMultisig]_vars

\* ------------------------------------------------- transaction messages
\* message.rs: a TransactionMessage is built by the caller, encoded with
\* borsh::to_vec (examples/create_pending_tx.rs:83) and handed to the program,
\* which stores the bytes as the message of a VaultTransaction account; the
\* client reads that account with VaultTransaction::try_from_slice.

\* The messages the caller builds.  The lists are within the width of their
\* count, or hold one element more than 255 (SmallVecU8) and than 65535
\* (SmallVecU16) can count.
TransactionMessages ==
    { [num_signers |-> 1,
       num_writable_signers |-> 1,
       num_writable_non_signers |-> nk,
       account_keys |-> KeyList(2, nk),
       instructions |->
         [i \in 1..ni |-> [program_id_index |-> i,
                           account_indexes |-> ByteList(0, na),
                           data |-> ByteList(2, nd)]],
       address_table_lookups |->
         [i \in 1..nl |-> [account_key |-> Key(6),
                           writable_indexes |-> ByteList(1, i),
                           readonly_indexes |-> ByteList(3, 2)]]] :
      nk \in {0, 1, 2}, ni \in 0..MaxItems, na \in {0, 2, 257},
      nd \in {0, 300, 65537}, nl \in 0..MaxItems }

MessageInit ==
    /\ ty = "TransactionMessage"
    /\ rec \in TransactionMessages
    /\ data = <<>>
    /\ result = NotRun
    /\ base = [data |-> <<>>, result |-> NotRun]
    /\ edit = NoEdit
    /\ pc = "built"
    /\ CallsIdle

\* borsh::to_vec(&message): the derived serializer of TransactionMessage over
\* the SmallVec serializers; no step of it returns an error.
SerializeMessage ==
    /\ pc = "built"
    /\ LET bytes == BorshSerialize(TransactionMessageSchema, rec)
       IN  /\ data' = bytes
           /\ call' = [fn |-> "to_vec"]
           /\ ret' = Ok(bytes, Len(bytes))
    /\ pc' = "serialized"
    /\ UNCHANGED <<ty, rec, result, base, edit, seen, curve, rpc, locals>>

\* TransactionMessage::deserialize(&mut &data[..])
DeserializeMessage ==
    /\ pc = "serialized"
    /\ result' = BorshDeserialize(TransactionMessageSchema, data, 0)
    /\ pc' = "decoded"
    /\ UNCHANGED <<ty, rec, data, base, edit, call, ret, seen,
                 curve, rpc, locals>>

\* The program stores the message bytes in a VaultTransaction account: the
\* discriminator, the 7 fields in front of the message, the message bytes.
EmbedInVaultTransaction ==
    /\ pc = "decoded"
    /\ \E d \in Discriminators, v \in VaultTransactionRecords :
          LET head == d \o SerializeFields(SubSeq(VaultTransactionSchema.fields, 1, 7), v)
          IN  /\ data' = head \o data
              /\ edit' = [op |-> "embed", at |-> Len(head), val |-> Len(data)]
    /\ base' = [data |-> data, result |-> result]
    /\ result' = NotRun
    /\ pc' = "embedded"
    /\ UNCHANGED <<ty, rec, call, ret, seen,
                 curve, rpc, locals>>

\* VaultTransaction::try_from_slice(&account.data)
DecodeVaultTransaction ==
    /\ pc = "embedded"
    /\ result' = TryFromSlice("VaultTransaction", data)
    /\ pc' = "vault_decoded"
    /\ UNCHANGED <<ty, rec, data, base, edit, call, ret, seen,
                 curve, rpc, locals>>

SpecMessage ==
    MessageInit /\ [][SerializeMessage \/ DeserializeMessage
                        \/ EmbedInVaultTransaction \/ DecodeVaultTransaction]_vars

\* ------------------------------------------------------ address derivation
\* pda.rs: every get_*_pda passes its seeds and the program id to
\* Pubkey::find_program_address and returns what it returns.

\* lib.rs: mod seeds, the byte strings b"multisig", b"program_config", ...
SEED_PREFIX == <<109, 117, 108, 116, 105, 115, 105, 103>>
SEED_PROGRAM_CONFIG ==
    <<112, 114, 111, 103, 114, 97, 109, 95, 99, 111, 110, 102, 105, 103>>
SEED_MULTISIG == <<109, 117, 108, 116, 105, 115, 105, 103>>
SEED_VAULT == <<118, 97, 117, 108, 116>>
SEED_TRANSACTION == <<116, 114, 97, 110, 115, 97, 99, 116, 105, 111, 110>>
\* A proposal literal of no bytes.
SEED_PROPOSAL_EMPTY == <<>>
SEED_PROPOSAL == <<112, 114, 111, 112, 111, 115, 97, 108>>
SEED_SPENDING_LIMIT ==
    <<115, 112, 101, 110, 100, 105, 110, 103, 95, 108, 105, 109, 105, 116>>
SEED_EPHEMERAL_SIGNER ==
    <<101, 112, 104, 101, 109, 101, 114, 97, 108, 95, 115, 105, 103, 110, 101, 114>>

\* lib.rs: SQUADS_PROGRAM_ID.parse().unwrap(): the 32 bytes that the base58
\* string "SQDS4ep65T869zMMBKyuUq6aD6EgTu8psMjkvj52pCf" stands for.
SQUADS_PROGRAM_ID ==
    <<6, 129, 196, 206, 71, 226, 35, 104, 184, 177, 85, 94, 200, 135, 175, 9,
      46, 252, 126, 251, 182, 108, 163, 245, 47, 191, 104, 212, 172, 156, 183, 168>>

\* A program id that replaces an absent one by the all-zero key.
ProgramIdOrZero(program_id) ==
    IF program_id.some THEN program_id.value ELSE Key(0)

\* "program_id.unwrap_or(&crate::program_id())"
ProgramIdOrDefault(program_id) ==
    IF program_id.some THEN program_id.value ELSE SQUADS_PROGRAM_ID

\* The bytes b"ProgramDerivedAddress" that create_program_address hashes after
\* the program id.
PDA_MARKER ==
    <<80, 114, 111, 103, 114, 97, 109, 68, 101, 114, 105, 118, 101, 100,
      65, 100, 100, 114, 101, 115, 115>>

\* The sets of bump seeds whose candidates are on the curve: none, the first
\* tried, the first and third tried, all but bump seed 0, all.
CurvePatterns == { {}, {255}, {253, 255}, 1..255, 0..255 }

\* bytes_are_curve_point: is the hash a point of the ed25519 curve?  The test
\* is a fixed function of the hashed bytes, unknown to the model: curve fixes,
\* for each of two classes of the bytes hashed around the bump seed, the bump
\* seeds whose hash is a point of the curve, so that equal bytes test alike.
OnCurveBumpSeeds(hashed, program_id) ==
    curve[((Len(hashed) + hashed[Len(hashed)] + program_id[1]) % 2) + 1]

\* The address Pubkey::create_program_address(seeds ++ [bump_seed], program_id)
\* returns when the hash is off the curve: the hash of the seeds in order
\* (hashed, then the bump seed), the program id and the marker.  SHA-256 is
\* taken to be injective: an address is known by the bytes it is the hash of.
Candidate(hashed, bump_seed, program_id) ==
    [sha256 |-> hashed \o <<bump_seed>> \o program_id \o PDA_MARKER]

\* The bump seeds tried from 1 upwards.
BumpSeedsTriedAscending == [i \in 1..255 |-> i]

\* The bump seeds in the order try_find_program_address tries them:
\*   let mut bump_seed = [u8::MAX];
\*   for _ in 0..u8::MAX { ...; bump_seed[0] -= 1; }
\* The body runs u8::MAX = 255 times, for the bump seeds 255 down to 1.
BumpSeedsTried == [i \in 1..255 |-> 256 - i]

\* Pubkey::try_find_program_address (solana_sdk), the body of its loop:
\*   match Self::create_program_address(&seeds_with_bump, program_id) {
\*       Ok(address) => return Some((address, bump_seed[0])),
\*       Err(PubkeyError::InvalidSeeds) => (),
\*       _ => break }
\* and None after the loop: the first bump seed tried whose hash is off the
\* curve gives the address.  The seeds of pda.rs are at most 5 of at most 32
\* bytes, so InvalidSeeds (a hash on the curve) is the only error that
\* create_program_address returns here.
try_find_program_address(seeds, program_id) ==
    LET hashed == Concat(seeds)
        on_curve == OnCurveBumpSeeds(hashed, program_id)
        Viable(bump_seed) == bump_seed \notin on_curve
        viable == SelectSeq(BumpSeedsTried, Viable)
    IN  IF viable = <<>> THEN None
        ELSE Some([address |-> Candidate(hashed, Head(viable), program_id),
                   bump |-> Head(viable)])

\* Pubkey::find_program_address:
\*   Self::try_find_program_address(seeds, program_id)
\*       .unwrap_or_else(|| panic!("Unable to find a viable program address bump seed"))
find_program_address(seeds, program_id) ==
    LET found == try_find_program_address(seeds, program_id)
    IN  IF found.some THEN Returned(found.value) ELSE Panic

\* The proposal seeds with the index after the literal.
get_proposal_pda_seeds_swapped(multisig_pda, transaction_index) ==
    <<SEED_PREFIX, multisig_pda, SEED_TRANSACTION, SEED_PROPOSAL,
      U64ToLe(transaction_index)>>

\* get_proposal_pda: "&[SEED_PREFIX, multisig_pda.as_ref(), SEED_TRANSACTION,
\* &transaction_index.to_le_bytes(), SEED_PROPOSAL]"
get_proposal_pda_seeds(multisig_pda, transaction_index) ==
    <<SEED_PREFIX, multisig_pda, SEED_TRANSACTION, U64ToLe(transaction_index),
      SEED_PROPOSAL>>

\* The seeds that function fn of pda.rs passes for arguments args: the first
\* argument of each call of Pubkey::find_program_address.
PdaSeeds(fn, args) ==
    CASE fn = "get_program_config_pda" -> <<SEED_PREFIX, SEED_PROGRAM_CONFIG>>
      [] fn = "get_multisig_pda" -> <<SEED_PREFIX, SEED_MULTISIG, args.create_key>>
      [] fn = "get_vault_pda" ->
           <<SEED_PREFIX, args.multisig_pda, SEED_VAULT, <<args.vault_index>> >>
      [] fn = "get_transaction_pda" ->
           <<SEED_PREFIX, args.multisig_pda, SEED_TRANSACTION,
             U64ToLe(args.transaction_index)>>
      [] fn = "get_proposal_pda" ->
           get_proposal_pda_seeds(args.multisig_pda, args.transaction_index)
      [] fn = "get_spending_limit_pda" ->
           <<SEED_PREFIX, args.multisig_pda, SEED_SPENDING_LIMIT, args.create_key>>
      [] fn = "get_ephemeral_signer_pda" ->
           <<SEED_PREFIX, args.transaction_pda, SEED_EPHEMERAL_SIGNER,
             <<args.ephemeral_signer_index>> >>

\* get_*_pda(args..., program_id)
get_pda(fn, args) ==
    find_program_address(PdaSeeds(fn, args), ProgramIdOrDefault(args.program_id))

\* The arguments the callers pass: for each function one list of arguments
\* with each program id, and a second list with the canonical program id.
PdaProgramIds == {None, Some(SQUADS_PROGRAM_ID), Some(Key(9))}

PdaFunctions ==
    {"get_program_config_pda", "get_multisig_pda", "get_vault_pda",
     "get_transaction_pda", "get_proposal_pda", "get_spending_limit_pda",
     "get_ephemeral_signer_pda"}

PdaArgs(fn) ==
    CASE fn = "get_program_config_pda" -> { [program_id |-> p] : p \in PdaProgramIds }
      [] fn = "get_multisig_pda" ->
           { [create_key |-> Key(1), program_id |-> p] : p \in PdaProgramIds }
             \cup { [create_key |-> Key(2), program_id |-> None] }
      [] fn = "get_vault_pda" ->
           { [multisig_pda |-> Key(1), vault_index |-> 0, program_id |-> p] :
             p \in PdaProgramIds }
             \cup { [multisig_pda |-> Key(1), vault_index |-> 1, program_id |-> None] }
      [] fn \in {"get_transaction_pda", "get_proposal_pda"} ->
           { [multisig_pda |-> Key(1), transaction_index |-> <<1, 0, 0, 0>>,
              program_id |-> p] : p \in PdaProgramIds }
             \cup { [multisig_pda |-> Key(2), transaction_index |-> <<513, 0, 0, 256>>,
                     program_id |-> None] }
      [] fn = "get_spending_limit_pda" ->
           { [multisig_pda |-> Key(1), create_key |-> Key(2), program_id |-> p] :
             p \in PdaProgramIds }
             \cup { [multisig_pda |-> Key(2), create_key |-> Key(1), program_id |-> None] }
      [] fn = "get_ephemeral_signer_pda" ->
           { [transaction_pda |-> Key(3), ephemeral_signer_index |-> 0,
              program_id |-> p] : p \in PdaProgramIds }
             \cup { [transaction_pda |-> Key(3), ephemeral_signer_index |-> 255,
                     program_id |-> None] }

PdaInit ==
    /\ ty = "Pda"
    /\ rec = <<>>
    /\ data = <<>>
    /\ result = NotRun
    /\ base = [data |-> <<>>, result |-> NotRun]
    /\ edit = NoEdit
    /\ pc = "idle"
    /\ call = NoCall
    /\ ret = NotRun
    /\ seen = NoCall
    /\ curve \in [1..2 -> CurvePatterns]
    /\ rpc = <<>>
    /\ locals = <<>>

\* A caller derives an address: one call of a get_*_pda function.
Derive ==
    /\ \E fn \in PdaFunctions : \E args \in PdaArgs(fn) :
          LET c == [fn |-> fn, args |-> args, seeds |-> PdaSeeds(fn, args)]
              r == get_pda(fn, args)
          IN  /\ call' = c
              /\ ret' = r
              /\ seen' = IF seen = NoCall THEN [call |-> c, ret |-> r] ELSE seen
    /\ UNCHANGED <<ty, rec, data, result, base, edit, pc, curve, rpc, locals>>

SpecPda == PdaInit /\ [][Derive]_vars

\* -------------------------------------------------------------- permissions
\* types.rs: enum Permission and impl Permissions.

PermissionsInit ==
    /\ ty = "Permissions"
    /\ rec = <<>>
    /\ data = <<>>
    /\ result = NotRun
    /\ base = [data |-> <<>>, result |-> NotRun]
    /\ edit = NoEdit
    /\ pc = "idle"
    /\ CallsIdle

\* Permissions::from_mask(mask): the caller has the value rec, made by call.
FromMask ==
    /\ \E mask \in 0..255 :
          /\ rec' = from_mask(mask)
          /\ call' = [fn |-> "from_mask", arg |-> mask]
    /\ ret' = NotRun
    /\ pc' = "built"
    /\ UNCHANGED <<ty, data, result, base, edit, seen, curve, rpc, locals>>

\* Permissions::from_vec(&permissions)
FromVec ==
    /\ \E permissions \in
           UNION { [1..n -> {"Initiate", "Vote", "Execute"}] : n \in 0..MaxFlags } :
          /\ rec' = from_vec(permissions)
          /\ call' = [fn |-> "from_vec", arg |-> permissions]
    /\ ret' = NotRun
    /\ pc' = "built"
    /\ UNCHANGED <<ty, data, result, base, edit, seen, curve, rpc, locals>>

\* Permissions::full()
Full ==
    /\ rec' = full
    /\ call' = [fn |-> "full", arg |-> <<>>]
    /\ ret' = NotRun
    /\ pc' = "built"
    /\ UNCHANGED <<ty, data, result, base, edit, seen, curve, rpc, locals>>

\* Permissions::none()
NoPermissions ==
    /\ rec' = none
    /\ call' = [fn |-> "none", arg |-> <<>>]
    /\ ret' = NotRun
    /\ pc' = "built"
    /\ UNCHANGED <<ty, data, result, base, edit, seen, curve, rpc, locals>>

\* rec.has_initiate()
HasInitiate ==
    /\ pc \in {"built", "asked"}
    /\ ret' = [tag |-> "Ok", fn |-> "has_initiate", value |-> has_initiate(rec)]
    /\ pc' = "asked"
    /\ UNCHANGED <<ty, rec, data, result, base, edit, call, seen, curve, rpc, locals>>

\* rec.has_vote()
HasVote ==
    /\ pc \in {"built", "asked"}
    /\ ret' = [tag |-> "Ok", fn |-> "has_vote", value |-> has_vote(rec)]
    /\ pc' = "asked"
    /\ UNCHANGED <<ty, rec, data, result, base, edit, call, seen, curve, rpc, locals>>

\* rec.has_execute()
HasExecute ==
    /\ pc \in {"built", "asked"}
    /\ ret' = [tag |-> "Ok", fn |-> "has_execute", value |-> has_execute(rec)]
    /\ pc' = "asked"
    /\ UNCHANGED <<ty, rec, data, result, base, edit, call, seen, curve, rpc, locals>>

SpecPermissions ==
    PermissionsInit /\ [][FromMask \/ FromVec \/ Full \/ NoPermissions
                            \/ HasInitiate \/ HasVote \/ HasExecute]_vars


\* ------------------------------------------ TransactionMessage::try_compile
\* message.rs: try_compile hands the vault key and the instructions to
\* v0::Message::try_compile of the Solana SDK (no lookup tables) and converts
\* the header, the account keys and the instructions of the message returned.

\* AccountMeta::new(pubkey, is_signer) and AccountMeta::new_readonly
AccountMetaNew(pubkey, is_signer) ==
    [pubkey |-> pubkey, is_signer |-> is_signer, is_writable |-> TRUE]
AccountMetaNewReadonly(pubkey, is_signer) ==
    [pubkey |-> pubkey, is_signer |-> is_signer, is_writable |-> FALSE]

\* The keys of set S in ascending order of their bytes: the order in which
\* the SDK's BTreeMap<Pubkey, CompiledKeyMeta> yields its keys.
SortedKeys(S) ==
    LET Less(a, b) ==
          \E i \in 1..PUBKEY_BYTES : a[i] < b[i] /\ \A j \in 1..(i - 1) : a[j] = b[j]
        rank == [k \in S |-> Cardinality({x \in S : Less(x, k)})]
    IN  [i \in 1..Cardinality(S) |-> CHOOSE k \in S : rank[k] = i - 1]

\* The writable signers with the payer among them in key order.
WritableSignersSorted(payer, others) ==
    SortedKeys({payer} \cup {others[i] : i \in 1..Len(others)})

\* "payer.into_iter().chain(..)": the payer, then the other writable signers.
WritableSignersPayerFirst(payer, others) == <<payer>> \o others

\* CompiledKeys::compile(instructions, Some(payer)) and
\* try_into_message_components: every program id and every account of the
\* instructions is a key, a signer / writable if some instruction names it
\* so; the payer is a writable signer.  The keys are listed as writable
\* signers, read-only signers, writable non-signers, read-only non-signers;
\* a count of signers, read-only signers or read-only non-signers above 255
\* is the error AccountIndexOverflow.
try_into_message_components(payer, instructions) ==
    LET metas == Concat([i \in 1..Len(instructions) |-> instructions[i].accounts])
        others == ({instructions[i].program_id : i \in 1..Len(instructions)}
                     \cup {metas[i].pubkey : i \in 1..Len(metas)}) \ {payer}
        signers == {metas[i].pubkey : i \in {j \in 1..Len(metas) : metas[j].is_signer}}
        writable == {metas[i].pubkey : i \in {j \in 1..Len(metas) : metas[j].is_writable}}
        writable_signer_keys ==
          WritableSignersPayerFirst(payer, SortedKeys((others \cap signers) \cap writable))
        readonly_signer_keys == SortedKeys((others \cap signers) \ writable)
        writable_non_signer_keys == SortedKeys((others \ signers) \cap writable)
        readonly_non_signer_keys == SortedKeys((others \ signers) \ writable)
    IN  IF \/ Len(writable_signer_keys) + Len(readonly_signer_keys) > 255
           \/ Len(readonly_signer_keys) > 255
           \/ Len(readonly_non_signer_keys) > 255
        THEN Err("AccountIndexOverflow")
        ELSE Returned(
               [header |->
                  [num_required_signatures |->
                     Len(writable_signer_keys) + Len(readonly_signer_keys),
                   num_readonly_signed_accounts |-> Len(readonly_signer_keys),
                   num_readonly_unsigned_accounts |-> Len(readonly_non_signer_keys)],
                account_keys |->
                  writable_signer_keys \o readonly_signer_keys
                    \o writable_non_signer_keys \o readonly_non_signer_keys])

\* AccountKeys::try_compile_instructions: each key gets its position as a u8
\* (a 257th key is the error AccountIndexOverflow), each instruction the
\* positions of its program id and of its accounts, and its data.
try_compile_instructions(account_keys, instructions) ==
    LET Index(key) == (CHOOSE i \in 1..Len(account_keys) : account_keys[i] = key) - 1
    IN  IF Len(account_keys) > 256 THEN Err("AccountIndexOverflow")
        ELSE Returned(
               [i \in 1..Len(instructions) |->
                  [program_id_index |-> Index(instructions[i].program_id),
                   account_indexes |->
                     [j \in 1..Len(instructions[i].accounts) |->
                        Index(instructions[i].accounts[j].pubkey)],
                   data |-> instructions[i].data]])

\* TransactionMessage::try_compile(vault_key, instructions)
try_compile(vault_key, instructions) ==
    LET components == try_into_message_components(vault_key, instructions)
        header == components.value.header
        account_keys == components.value.account_keys
        compiled == try_compile_instructions(account_keys, instructions)
        saturating_sub(a, b) == IF a > b THEN a - b ELSE 0
    IN  IF components.tag # "Ok" THEN components
        ELSE IF compiled.tag # "Ok" THEN compiled
        ELSE IF Len(account_keys) > 255 THEN Err("AccountIndexOverflow")
        ELSE Returned(
               [num_signers |-> header.num_required_signatures,
                num_writable_signers |->
                  saturating_sub(header.num_required_signatures,
                                 header.num_readonly_signed_accounts),
                num_writable_non_signers |->
                  saturating_sub(saturating_sub(Len(account_keys),
                                                header.num_required_signatures),
                                 header.num_readonly_unsigned_accounts),
                account_keys |-> account_keys,
                instructions |-> compiled.value,
                address_table_lookups |-> <<>>])

\* system_instruction::transfer(from, to, lamports): the system program (the
\* all-zero key), from as writable signer, to as writable, and as data the
\* u32 variant index 2 and the u64 lamports.
SystemTransfer(from, to, lamports) ==
    [program_id |-> Key(0),
     accounts |-> <<AccountMetaNew(from, TRUE), AccountMetaNew(to, FALSE)>>,
     data |-> <<2, 0, 0, 0>> \o U64ToLe(lamports)]

\* The instructions a caller compiles for vault: a transfer from the vault, a
\* transfer to it by another signer, an instruction with a read-only signer
\* that reads the vault, one that invokes the vault key as its program, one
\* that names an account twice.
CompileInstructions(vault) ==
    { SystemTransfer(vault, Key(2), <<1000, 0, 0, 0>>),
      SystemTransfer(Key(3), vault, <<5, 0, 0, 0>>),
      [program_id |-> Key(4),
       accounts |-> <<AccountMetaNewReadonly(Key(5), TRUE),
                      AccountMetaNewReadonly(Key(2), FALSE),
                      AccountMetaNewReadonly(vault, FALSE)>>,
       data |-> <<1, 2>>],
      [program_id |-> vault,
       accounts |-> <<AccountMetaNew(Key(7), FALSE)>>,
       data |-> <<>>],
      [program_id |-> Key(4),
       accounts |-> <<AccountMetaNewReadonly(Key(2), FALSE),
                      AccountMetaNew(Key(2), FALSE),
                      AccountMetaNew(Key(5), TRUE)>>,
       data |-> <<9>>] }

\* The caller holds a vault key and a list of up to MaxInstructions of the
\* instructions above.
CompileInit ==
    /\ ty = "Instructions"
    /\ \E vault \in {Key(1), Key(6)} :
         \E instructions \in
              UNION { [1..n -> CompileInstructions(vault)] : n \in 0..MaxInstructions } :
            rec = [vault_key |-> vault, instructions |-> instructions]
    /\ data = <<>>
    /\ result = NotRun
    /\ base = [data |-> <<>>, result |-> NotRun]
    /\ edit = NoEdit
    /\ pc = "built"
    /\ CallsIdle

\* TransactionMessage::try_compile(&vault_key, &instructions)
TryCompile ==
    /\ pc = "built"
    /\ call' = [fn |-> "try_compile"]
    /\ ret' = try_compile(rec.vault_key, rec.instructions)
    /\ pc' = "compiled"
    /\ UNCHANGED <<ty, rec, data, result, base, edit, seen, curve, rpc, locals>>

\* borsh::to_vec(&message) of the message compiled, as
\* examples/create_pending_tx.rs does.
SerializeCompiled ==
    /\ pc = "compiled" /\ ret.tag = "Ok"
    /\ data' = BorshSerialize(TransactionMessageSchema, ret.value)
    /\ pc' = "serialized"
    /\ UNCHANGED <<ty, rec, result, base, edit, call, ret, seen,
                 curve, rpc, locals>>

SpecCompile == CompileInit /\ [][TryCompile \/ SerializeCompiled]_vars


\* ------------------------------------- VaultTransactionMessage index tests
\* accounts.rs: is_static_writable_index and is_signer_index classify an
\* index into account_keys by the three counts of the message.

\* The test without the bound of the key list.
is_static_writable_index_unbounded(m, key_index) ==
    IF key_index < m.num_writable_signers THEN TRUE
    ELSE IF key_index >= m.num_signers
         THEN (key_index - m.num_signers) < m.num_writable_non_signers
    ELSE FALSE

\* VaultTransactionMessage::is_static_writable_index(key_index); in the third
\* test key_index >= num_signers, so saturating_sub is the difference.
is_static_writable_index(m, key_index) ==
    IF key_index >= Len(m.account_keys) THEN FALSE
    ELSE IF key_index < m.num_writable_signers THEN TRUE
    ELSE IF key_index >= m.num_signers
         THEN (key_index - m.num_signers) < m.num_writable_non_signers
    ELSE FALSE

\* VaultTransactionMessage::is_signer_index(key_index)
is_signer_index(m, key_index) == key_index < m.num_signers

\* A message of up to MaxKeys keys; its three counts are any u8, also ones
\* that no key list of that length makes true.
IndexInit ==
    /\ ty = "VaultTransactionMessage"
    /\ \E ns, nws, nwns \in (0..MaxKeys) \cup {255}, n \in 0..MaxKeys :
         rec = [num_signers |-> ns,
                num_writable_signers |-> nws,
                num_writable_non_signers |-> nwns,
                account_keys |-> KeyList(0, n),
                instructions |-> <<>>,
                address_table_lookups |-> <<>>]
    /\ data = <<>>
    /\ result = NotRun
    /\ base = [data |-> <<>>, result |-> NotRun]
    /\ edit = NoEdit
    /\ pc = "built"
    /\ CallsIdle

\* message.is_static_writable_index(key_index)
IsStaticWritableIndex ==
    /\ \E key_index \in 0..(MaxKeys + 1) :
         /\ call' = [fn |-> "is_static_writable_index", key_index |-> key_index]
         /\ ret' = Returned(is_static_writable_index(rec, key_index))
    /\ UNCHANGED <<ty, rec, data, result, base, edit, pc, seen, curve, rpc, locals>>

\* message.is_signer_index(key_index)
IsSignerIndex ==
    /\ \E key_index \in 0..(MaxKeys + 1) :
         /\ call' = [fn |-> "is_signer_index", key_index |-> key_index]
         /\ ret' = Returned(is_signer_index(rec, key_index))
    /\ UNCHANGED <<ty, rec, data, result, base, edit, pc, seen, curve, rpc, locals>>

SpecIndex == IndexInit /\ [][IsStaticWritableIndex \/ IsSignerIndex]_vars


\* ------------------------------------------------------ instruction builders
\* instructions.rs: every builder returns Instruction { program_id, accounts,
\* data }.  system_program::ID is the all-zero key.  A String is written by
\* borsh as the Vec<u8> of its UTF-8 bytes, so a memo is carried as its bytes.

\* solana_sdk::hash::hash(preimage).to_bytes()[..8]: the first 8 bytes of the
\* SHA-256 digest, for the preimages the builders and their variants hash.
Sha256Prefix(preimage) ==
    CASE preimage = "global:multisig_create_v2" ->
           <<50, 221, 199, 93, 40, 245, 139, 233>>
      [] preimage = "multisig_create_v2" ->
           <<217, 51, 140, 59, 52, 219, 173, 129>>
      [] preimage = "global:proposal_create" ->
           <<220, 60, 73, 224, 30, 108, 79, 159>>
      [] preimage = "proposal_create" ->
           <<199, 111, 154, 33, 41, 231, 75, 39>>
      [] preimage = "global:proposal_approve" ->
           <<144, 37, 164, 136, 188, 216, 42, 248>>
      [] preimage = "proposal_approve" ->
           <<28, 139, 177, 136, 142, 41, 101, 48>>
      [] preimage = "global:proposal_reject" ->
           <<243, 62, 134, 156, 230, 106, 246, 135>>
      [] preimage = "proposal_reject" ->
           <<74, 4, 184, 12, 206, 178, 17, 119>>
      [] preimage = "global:proposal_cancel" ->
           <<27, 42, 127, 237, 38, 163, 84, 203>>
      [] preimage = "proposal_cancel" ->
           <<220, 16, 171, 183, 133, 141, 21, 138>>
      [] preimage = "global:vault_transaction_create" ->
           <<48, 250, 78, 168, 208, 226, 218, 211>>
      [] preimage = "vault_transaction_create" ->
           <<69, 232, 30, 29, 14, 104, 207, 167>>
      [] preimage = "global:vault_transaction_execute" ->
           <<194, 8, 161, 87, 153, 164, 25, 171>>
      [] preimage = "vault_transaction_execute" ->
           <<7, 139, 68, 17, 31, 191, 27, 106>>
      [] preimage = "global:config_transaction_create" ->
           <<155, 236, 87, 228, 137, 75, 81, 39>>
      [] preimage = "config_transaction_create" ->
           <<200, 187, 112, 145, 164, 171, 35, 196>>
      [] preimage = "global:config_transaction_execute" ->
           <<114, 146, 244, 189, 252, 140, 36, 40>>
      [] preimage = "config_transaction_execute" ->
           <<14, 111, 236, 74, 206, 138, 54, 145>>
      [] preimage = "global:proposal_activate" ->
           <<11, 34, 92, 248, 154, 27, 51, 106>>
      [] preimage = "proposal_activate" ->
           <<70, 185, 160, 179, 14, 46, 12, 181>>
      [] preimage = "global:spending_limit_use" ->
           <<16, 57, 130, 127, 193, 20, 155, 134>>
      [] preimage = "spending_limit_use" ->
           <<145, 195, 204, 106, 114, 28, 81, 172>>

\* The discriminator taken from the hash of the bare name.
instruction_discriminator_bare(name) == Sha256Prefix(name)

\* instruction_discriminator(name): format!("global:{}", name) hashed.
instruction_discriminator(name) == Sha256Prefix("global:" \o name)

\* args: MultisigCreateArgsV2
multisig_create_v2(program_config, treasury, multisig, create_key, creator, args, program_id) ==
    LET id == ProgramIdOrDefault(program_id)
    IN  [program_id |-> id,
         accounts |->
             <<AccountMetaNewReadonly(program_config, FALSE),
               AccountMetaNew(treasury, FALSE),
               AccountMetaNew(multisig, FALSE),
               AccountMetaNewReadonly(create_key, TRUE),
               AccountMetaNew(creator, TRUE),
               AccountMetaNewReadonly(Key(0), FALSE)>>,
         data |->
             instruction_discriminator("multisig_create_v2")
             \o BorshSerialize(
                  StructT(<< <<"config_authority", OptionT(PubkeyT)>>,
                             <<"threshold", U16T>>,
                             <<"members", VecT(MemberSchema)>>,
                             <<"time_lock", U32T>>,
                             <<"rent_collector", OptionT(PubkeyT)>>,
                             <<"memo", OptionT(VecT(U8T))>> >>),
                  args)]

\* args: ProposalCreateArgs; borsh writes a bool as u8::from(bool), so
\* args.draft is carried as 0 or 1.
proposal_create(multisig, proposal, creator, rent_payer, args, program_id) ==
    LET id == ProgramIdOrDefault(program_id)
    IN  [program_id |-> id,
         accounts |->
             <<AccountMetaNewReadonly(multisig, FALSE),
               AccountMetaNew(proposal, FALSE),
               AccountMetaNewReadonly(creator, TRUE),
               AccountMetaNew(rent_payer, TRUE),
               AccountMetaNewReadonly(Key(0), FALSE)>>,
         data |->
             instruction_discriminator("proposal_create")
             \o BorshSerialize(
                  StructT(<< <<"transaction_index", U64T>>,
                             <<"draft", U8T>> >>),
                  args)]

\* args: ProposalVoteArgs
proposal_approve(multisig, proposal, member, args, program_id) ==
    LET id == ProgramIdOrDefault(program_id)
    IN  [program_id |-> id,
         accounts |->
             <<AccountMetaNewReadonly(multisig, FALSE),
               AccountMetaNew(member, TRUE),
               AccountMetaNew(proposal, FALSE)>>,
         data |->
             instruction_discriminator("proposal_approve")
             \o BorshSerialize(
                  StructT(<< <<"memo", OptionT(VecT(U8T))>> >>),
                  args)]

\* args: ProposalVoteArgs
proposal_reject(multisig, proposal, member, args, program_id) ==
    LET id == ProgramIdOrDefault(program_id)
    IN  [program_id |-> id,
         accounts |->
             <<AccountMetaNewReadonly(multisig, FALSE),
               AccountMetaNew(member, TRUE),
               AccountMetaNew(proposal, FALSE)>>,
         data |->
             instruction_discriminator("proposal_reject")
             \o BorshSerialize(
                  StructT(<< <<"memo", OptionT(VecT(U8T))>> >>),
                  args)]

\* args: ProposalVoteArgs
proposal_cancel(multisig, proposal, member, args, program_id) ==
    LET id == ProgramIdOrDefault(program_id)
    IN  [program_id |-> id,
         accounts |->
             <<AccountMetaNewReadonly(multisig, FALSE),
               AccountMetaNew(member, TRUE),
               AccountMetaNew(proposal, FALSE)>>,
         data |->
             instruction_discriminator("proposal_cancel")
             \o BorshSerialize(
                  StructT(<< <<"memo", OptionT(VecT(U8T))>> >>),
                  args)]

\* args: VaultTransactionCreateArgs
vault_transaction_create(multisig, transaction, creator, rent_payer, args, program_id) ==
    LET id == ProgramIdOrDefault(program_id)
    IN  [program_id |-> id,
         accounts |->
             <<AccountMetaNew(multisig, FALSE),
               AccountMetaNew(transaction, FALSE),
               AccountMetaNewReadonly(creator, TRUE),
               AccountMetaNew(rent_payer, TRUE),
               AccountMetaNewReadonly(Key(0), FALSE)>>,
         data |->
             instruction_discriminator("vault_transaction_create")
             \o BorshSerialize(
                  StructT(<< <<"vault_index", U8T>>,
                             <<"ephemeral_signers", U8T>>,
                             <<"transaction_message", VecT(U8T)>>,
                             <<"memo", OptionT(VecT(U8T))>> >>),
                  args)]

vault_transaction_execute(multisig, proposal, transaction, member, remaining_accounts, program_id) ==
    LET id == ProgramIdOrDefault(program_id)
    IN  [program_id |-> id,
         accounts |->
             <<AccountMetaNewReadonly(multisig, FALSE),
               AccountMetaNew(proposal, FALSE),
               AccountMetaNewReadonly(transaction, FALSE),
               AccountMetaNewReadonly(member, TRUE)>>
             \o remaining_accounts,
         data |-> instruction_discriminator("vault_transaction_execute")]

\* args: ConfigTransactionCreateArgs
config_transaction_create(multisig, transaction, creator, rent_payer, args, program_id) ==
    LET id == ProgramIdOrDefault(program_id)
    IN  [program_id |-> id,
         accounts |->
             <<AccountMetaNewReadonly(multisig, FALSE),
               AccountMetaNewReadonly(creator, TRUE),
               AccountMetaNew(rent_payer, TRUE),
               AccountMetaNew(transaction, FALSE),
               AccountMetaNewReadonly(Key(0), FALSE)>>,
         data |->
             instruction_discriminator("config_transaction_create")
             \o BorshSerialize(
                  StructT(<< <<"actions", VecT(ConfigActionSchema)>>,
                             <<"memo", OptionT(VecT(U8T))>> >>),
                  args)]

\* The builder that adds no account in the place of an absent rent_payer.
config_transaction_execute_unpadded(multisig, proposal, transaction, member, rent_payer, spending_limit_accounts, program_id) ==
    LET id == ProgramIdOrDefault(program_id)
    IN  [program_id |-> id,
         accounts |->
             <<AccountMetaNew(multisig, FALSE),
               AccountMetaNewReadonly(member, TRUE),
               AccountMetaNew(proposal, FALSE),
               AccountMetaNew(transaction, FALSE)>>
             \o (IF rent_payer.some THEN <<AccountMetaNew(rent_payer.value, TRUE)>>
                 ELSE <<>>)
             \o <<AccountMetaNewReadonly(Key(0), FALSE)>>
             \o [i \in 1..Len(spending_limit_accounts) |->
                   AccountMetaNew(spending_limit_accounts[i], FALSE)],
         data |-> instruction_discriminator("config_transaction_execute")]

config_transaction_execute(multisig, proposal, transaction, member, rent_payer, spending_limit_accounts, program_id) ==
    LET id == ProgramIdOrDefault(program_id)
    IN  [program_id |-> id,
         accounts |->
             <<AccountMetaNew(multisig, FALSE),
               AccountMetaNewReadonly(member, TRUE),
               AccountMetaNew(proposal, FALSE),
               AccountMetaNew(transaction, FALSE)>>
             \o <<IF rent_payer.some THEN AccountMetaNew(rent_payer.value, TRUE)
                   ELSE AccountMetaNewReadonly(id, FALSE)>>
             \o <<AccountMetaNewReadonly(Key(0), FALSE)>>
             \o [i \in 1..Len(spending_limit_accounts) |->
                   AccountMetaNew(spending_limit_accounts[i], FALSE)],
         data |-> instruction_discriminator("config_transaction_execute")]

proposal_activate(multisig, proposal, member, program_id) ==
    LET id == ProgramIdOrDefault(program_id)
    IN  [program_id |-> id,
         accounts |->
             <<AccountMetaNewReadonly(multisig, FALSE),
               AccountMetaNew(proposal, FALSE),
               AccountMetaNewReadonly(member, TRUE)>>,
         data |-> instruction_discriminator("proposal_activate")]

\* args: SpendingLimitUseArgs
spending_limit_use(multisig, member, spending_limit, vault, destination, mint, vault_token_account, destination_token_account, token_program, args, program_id) ==
    LET id == ProgramIdOrDefault(program_id)
    IN  [program_id |-> id,
         accounts |->
             <<AccountMetaNewReadonly(multisig, FALSE),
               AccountMetaNewReadonly(member, TRUE),
               AccountMetaNew(spending_limit, FALSE),
               AccountMetaNew(vault, FALSE),
               AccountMetaNew(destination, FALSE),
               AccountMetaNewReadonly(Key(0), FALSE),
               IF mint.some THEN AccountMetaNewReadonly(mint.value, FALSE)
                ELSE AccountMetaNewReadonly(id, FALSE),
               IF vault_token_account.some THEN AccountMetaNew(vault_token_account.value, FALSE)
                ELSE AccountMetaNewReadonly(id, FALSE),
               IF destination_token_account.some THEN AccountMetaNew(destination_token_account.value, FALSE)
                ELSE AccountMetaNewReadonly(id, FALSE),
               IF token_program.some THEN AccountMetaNewReadonly(token_program.value, FALSE)
                ELSE AccountMetaNewReadonly(id, FALSE)>>,
         data |->
             instruction_discriminator("spending_limit_use")
             \o BorshSerialize(
                  StructT(<< <<"amount", U64T>>,
                             <<"decimals", U8T>>,
                             <<"memo", OptionT(VecT(U8T))>> >>),
                  args)]

\* A call of one builder: its name and its arguments.  The required accounts
\* are distinct fixed keys; what varies is what the builders branch on or
\* encode.
InstructionsInit ==
    /\ ty = "Instruction"
    /\ \E program_id \in {None, Some(Key(9))},
          memo \in {None, Some(<<>>), Some(<<104, 105>>)} :
         \/ \E config_authority \in {None, Some(Key(7))}, threshold \in {1, 258},
               members \in {MemberList(0), MemberList(2)},
               rent_collector \in {None, Some(Key(8))} :
              rec = [fn |-> "multisig_create_v2", program_id |-> program_id,
                     args |-> [config_authority |-> config_authority,
                               threshold |-> threshold,
                               members |-> members,
                               time_lock |-> <<3600, 1>>,
                               rent_collector |-> rent_collector,
                               memo |-> memo]]
         \/ \E transaction_index \in {<<1, 0, 0, 0>>, <<0, 1, 0, 0>>}, draft \in {0, 1} :
              /\ memo = None
              /\ rec = [fn |-> "proposal_create", program_id |-> program_id,
                        args |-> [transaction_index |-> transaction_index,
                                  draft |-> draft]]
         \/ \E fn \in {"proposal_approve", "proposal_reject", "proposal_cancel"} :
              rec = [fn |-> fn, program_id |-> program_id, args |-> [memo |-> memo]]
         \/ \E vault_index \in {0, 1}, ephemeral_signers \in {0, 2},
               transaction_message \in {<<>>, ByteList(1, 5)} :
              rec = [fn |-> "vault_transaction_create", program_id |-> program_id,
                     args |-> [vault_index |-> vault_index,
                               ephemeral_signers |-> ephemeral_signers,
                               transaction_message |-> transaction_message,
                               memo |-> memo]]
         \/ \E remaining_accounts \in
                 {<<>>, <<AccountMetaNew(Key(6), FALSE),
                          AccountMetaNewReadonly(Key(7), FALSE)>>} :
              /\ memo = None
              /\ rec = [fn |-> "vault_transaction_execute", program_id |-> program_id,
                        remaining_accounts |-> remaining_accounts]
         \/ \E a \in ConfigActions, n \in 0..1 :
              rec = [fn |-> "config_transaction_create", program_id |-> program_id,
                     args |-> [actions |-> [i \in 1..n |-> a], memo |-> memo]]
         \/ \E rent_payer \in {None, Some(Key(5))}, n \in 0..MaxSpendingLimits :
              /\ memo = None
              /\ rec = [fn |-> "config_transaction_execute", program_id |-> program_id,
                        rent_payer |-> rent_payer,
                        spending_limit_accounts |-> KeyList(5, n)]
         \/ /\ memo = None
            /\ rec = [fn |-> "proposal_activate", program_id |-> program_id]
         \/ \E mint \in {None, Some(Key(6))}, vault_token_account \in {None, Some(Key(7))},
               destination_token_account \in {None, Some(Key(8))},
               token_program \in {None, Some(Key(10))} :
              rec = [fn |-> "spending_limit_use", program_id |-> program_id,
                     mint |-> mint,
                     vault_token_account |-> vault_token_account,
                     destination_token_account |-> destination_token_account,
                     token_program |-> token_program,
                     args |-> [amount |-> <<51712, 15258, 0, 0>>, decimals |-> 6,
                               memo |-> memo]]
    /\ data = <<>>
    /\ result = NotRun
    /\ base = [data |-> <<>>, result |-> NotRun]
    /\ edit = NoEdit
    /\ pc = "idle"
    /\ CallsIdle

\* The caller runs the builder named in rec on rec's arguments.
Build ==
    /\ pc = "idle"
    /\ call' = [fn |-> rec.fn]
    /\ ret' = Returned(
         CASE rec.fn = "multisig_create_v2" ->
                multisig_create_v2(Key(1), Key(2), Key(3), Key(4), Key(5),
                                   rec.args, rec.program_id)
           [] rec.fn = "proposal_create" ->
                proposal_create(Key(1), Key(2), Key(3), Key(4), rec.args, rec.program_id)
           [] rec.fn = "proposal_approve" ->
                proposal_approve(Key(1), Key(2), Key(3), rec.args, rec.program_id)
           [] rec.fn = "proposal_reject" ->
                proposal_reject(Key(1), Key(2), Key(3), rec.args, rec.program_id)
           [] rec.fn = "proposal_cancel" ->
                proposal_cancel(Key(1), Key(2), Key(3), rec.args, rec.program_id)
           [] rec.fn = "vault_transaction_create" ->
                vault_transaction_create(Key(1), Key(2), Key(3), Key(4),
                                         rec.args, rec.program_id)
           [] rec.fn = "vault_transaction_execute" ->
                vault_transaction_execute(Key(1), Key(2), Key(3), Key(4),
                                          rec.remaining_accounts, rec.program_id)
           [] rec.fn = "config_transaction_create" ->
                config_transaction_create(Key(1), Key(2), Key(3), Key(4),
                                          rec.args, rec.program_id)
           [] rec.fn = "config_transaction_execute" ->
                config_transaction_execute(Key(1), Key(2), Key(3), Key(4),
                                           rec.rent_payer, rec.spending_limit_accounts,
                                           rec.program_id)
           [] rec.fn = "proposal_activate" ->
                proposal_activate(Key(1), Key(2), Key(3), rec.program_id)
           [] rec.fn = "spending_limit_use" ->
                spending_limit_use(Key(1), Key(2), Key(3), Key(4), Key(5),
                                   rec.mint, rec.vault_token_account,
                                   rec.destination_token_account, rec.token_program,
                                   rec.args, rec.program_id))
    /\ pc' = "built"
    /\ UNCHANGED <<ty, rec, data, result, base, edit, seen, curve, rpc, locals>>

SpecInstructions == InstructionsInit /\ [][Build]_vars


\* ------------------------------------------- SquadsClient::create_multisig
\* client.rs: an async fn; between two of its await points it runs without
\* interruption, and at each await it has sent one request to the RPC node
\* and waits for the answer.

\* create_multisig accepting the threshold before it looks for a voter.
ValidateInputsThresholdFirst(threshold, members) ==
    LET voting_members ==
            Cardinality({i \in 1..Len(members) : has_vote(members[i].permissions)})
    IN  IF threshold = 0 THEN Err("InvalidThreshold")
        ELSE IF threshold > voting_members THEN Err("InvalidThreshold")
        ELSE IF voting_members = 0 THEN Err("NoVotingMembers")
        ELSE Returned(voting_members)

\* "// Validate inputs": the three tests create_multisig starts with, in the
\* order of the code; Returned when none of them returns an error.
ValidateInputs(threshold, members) ==
    LET voting_members ==
            Cardinality({i \in 1..Len(members) : has_vote(members[i].permissions)})
    IN  IF threshold = 0 THEN Err("InvalidThreshold")
        ELSE IF voting_members = 0 THEN Err("NoVotingMembers")
        ELSE IF threshold > voting_members THEN Err("InvalidThreshold")
        ELSE Returned(voting_members)

\* A client built by new or new_with_program_id, and the arguments of one
\* call of create_multisig: thresholds 0..3 against lists of 0..3 members of
\* which 0..2 vote.
ClientInit ==
    /\ ty = "Client"
    /\ \E program_id \in {SQUADS_PROGRAM_ID, Key(9)}, threshold \in 0..3,
          masks \in {<<>>, <<7>>, <<1>>, <<7, 2>>, <<1, 4>>, <<7, 1, 2>>} :
         rec = [program_id |-> program_id,
                create_key |-> Key(4),
                creator |-> Key(5),
                threshold |-> threshold,
                members |-> [i \in 1..Len(masks) |->
                               [key |-> Key(5 + i), permissions |-> from_mask(masks[i])]],
                time_lock |-> <<0, 0>>,
                config_authority |-> None,
                rent_collector |-> None]
    /\ data = <<>>
    /\ result = NotRun
    /\ base = [data |-> <<>>, result |-> NotRun]
    /\ edit = NoEdit
    /\ pc = "called"
    /\ call = [fn |-> "create_multisig"]
    /\ ret = NotRun
    /\ seen = NoCall
    /\ curve \in [1..2 -> CurvePatterns]
    /\ rpc = <<>>
    /\ locals = <<>>

\* create_multisig up to its first await: the validation, the two address
\* derivations, and the getAccountInfo request for the program config.
CreateMultisig ==
    /\ pc = "called"
    /\ LET valid == ValidateInputs(rec.threshold, rec.members)
           multisig_pda ==
               get_pda("get_multisig_pda",
                       [create_key |-> rec.create_key, program_id |-> Some(rec.program_id)])
           program_config_pda ==
               get_pda("get_program_config_pda", [program_id |-> Some(rec.program_id)])
       IN  IF valid.tag = "Err"
           THEN /\ ret' = valid
                /\ pc' = "returned"
                /\ UNCHANGED <<rpc, locals>>
           ELSE IF multisig_pda = Panic \/ program_config_pda = Panic
           THEN /\ ret' = Panic
                /\ pc' = "returned"
                /\ UNCHANGED <<rpc, locals>>
           ELSE /\ locals' = [multisig_pda |-> multisig_pda.value.address,
                              program_config_pda |-> program_config_pda.value.address]
                /\ rpc' = Append(rpc, [method |-> "getAccountInfo",
                                       pubkey |-> program_config_pda.value.address])
                /\ pc' = "get_account"
                /\ UNCHANGED ret
    /\ UNCHANGED <<ty, rec, data, result, base, edit, call, seen, curve>>

\* The RPC node answers the request create_multisig waits for, and the call
\* runs on to its next await or to its return.  "?" turns a failed request
\* into SquadsError::ClientError.  send_and_confirm_transaction_with_spinner_
\* and_config is one exchange with the node here: the transaction sent and
\* the answer whether it was confirmed.
RpcReturns ==
    /\ pc \in {"get_account", "get_latest_blockhash", "send_and_confirm"}
    /\ \/ /\ ret' = Err("ClientError")
          /\ pc' = "returned"
          /\ UNCHANGED <<data, rpc, locals>>
       \/ /\ pc = "get_account"
          /\ \E account \in
                 { d \o ToVec("ProgramConfig", r) \o t :
                     d \in Discriminators, r \in ProgramConfigRecords,
                     t \in {<<>>, Zeros(64)} }
                   \cup {<<>>, Zeros(71), ByteList(1, 72)} :
               /\ data' = account
               /\ IF Len(account) < 72
                  THEN \* program_config_account.data[40..72] is out of range
                       /\ ret' = Panic
                       /\ pc' = "returned"
                       /\ UNCHANGED <<rpc, locals>>
                  ELSE LET treasury == SubSeq(account, 41, 72)
                           args == [config_authority |-> rec.config_authority,
                                    threshold |-> rec.threshold,
                                    members |-> rec.members,
                                    time_lock |-> rec.time_lock,
                                    rent_collector |-> rec.rent_collector,
                                    memo |-> None]
                           ix == multisig_create_v2(
                                     locals.program_config_pda, treasury,
                                     locals.multisig_pda, rec.create_key, rec.creator,
                                     args, Some(rec.program_id))
                       IN  /\ locals' = [multisig_pda |-> locals.multisig_pda,
                                          program_config_pda |-> locals.program_config_pda,
                                          treasury |-> treasury,
                                          ix |-> ix]
                           /\ rpc' = Append(rpc, [method |-> "getLatestBlockhash"])
                           /\ pc' = "get_latest_blockhash"
                           /\ UNCHANGED ret
       \/ /\ pc = "get_latest_blockhash"
          /\ rpc' = Append(rpc, [method |-> "sendTransaction",
                                 payer |-> rec.creator,
                                 instructions |-> <<locals.ix>>,
                                 signers |-> <<rec.creator, rec.create_key>>])
          /\ pc' = "send_and_confirm"
          /\ UNCHANGED <<data, ret, locals>>
       \/ /\ pc = "send_and_confirm"
          /\ ret' = Returned("signature")
          /\ pc' = "returned"
          /\ UNCHANGED <<data, rpc, locals>>
    /\ UNCHANGED <<ty, rec, result, base, edit, call, seen, curve>>

\* ProgramConfig::try_from_slice on the bytes the node answered with.
DecodeProgramConfig ==
    /\ pc \in {"get_latest_blockhash", "send_and_confirm", "returned"}
    /\ rpc # <<>>
    /\ result = NotRun
    /\ result' \in Outcomes(TryFromSlice("ProgramConfig", data))
    /\ UNCHANGED <<ty, rec, data, base, edit, pc, call, ret, seen, curve, rpc, locals>>

SpecClient == ClientInit /\ [][CreateMultisig \/ RpcReturns \/ DecodeProgramConfig]_vars

\* ------------------------------------------------------------------- claims

Decoded == result.tag # "NotRun"

\* C1: Multisig::try_from_slice ends, for a buffer of any length, by returning
\* a record or an error value; it never panics on an out-of-range read.
C1_MultisigNeverPanics ==
    (ty = "Multisig" /\ Decoded) => result.tag \in {"Ok", "Err"}

\* The first declared field of a record of type t.
FirstField(t, v) ==
    CASE t = "Multisig" -> v.create_key
      [] t = "ProgramConfig" -> v.authority
      [] OTHER -> v.multisig

\* C2: for each record type, try_from_slice of fewer than 8 bytes is the
\* too-short error, and with 8 bytes or more the fields are parsed from byte
\* offset 8 on: the too-short-account error is not returned, and the first
\* declared field (a key, in all six types) is bytes 8..39.
C2_SkipsDiscriminator ==
    Decoded =>
      /\ Len(data) < 8 => result = Err("AccountDataTooShort")
      /\ Len(data) >= 8 => result # Err("AccountDataTooShort")
      /\ result.tag = "Ok" =>
           /\ FirstField(ty, result.value) = Slice(data, 8, 40)
           /\ result.offset >= 8 + 32

C2_Witness ==
    /\ pc = "redecoded" /\ edit.op = "truncate"
    /\ Len(data) = 7
    /\ result = Err("AccountDataTooShort")

\* C3: a buffer that decodes, cut to a length that ends before the last
\* declared field is complete, makes try_from_slice return a too-short error:
\* no panic and no record.
C3_TruncationIsTooShort ==
    (/\ pc = "redecoded" /\ edit.op = "truncate"
     /\ base.result.tag = "Ok"
     /\ Len(data) < base.result.offset)
    => (result.tag = "Err" /\ result.error \in
          {"AccountDataTooShort", "NotEnoughBytesForMember", "UnexpectedLength"})

\* C4: Multisig::try_from_slice reads the rent_collector flag at offset 94;
\* flag 0 gives rent_collector = None and bump = byte 95, flag 1 gives
\* rent_collector = bytes 95..126 and bump = byte 127.
C4_RentCollectorLayout ==
    (ty = "Multisig" /\ result.tag = "Ok") =>
      /\ At(data, 94) = 0 =>
           /\ result.value.rent_collector = None
           /\ result.value.bump = At(data, 95)
      /\ At(data, 94) = 1 =>
           /\ result.value.rent_collector = Some(Slice(data, 95, 127))
           /\ result.value.bump = At(data, 127)

C4_Witness ==
    /\ ty = "Multisig" /\ result.tag = "Ok"
    /\ At(data, 94) = 0
    /\ result.value.rent_collector = None
    /\ result.value.bump = 255

\* C5: the encoding of a Multisig holds the rent_collector flag followed by
\* 32 bytes, the key when present and 32 zero bytes when absent, so that a
\* Multisig of n members is encoded in 124 + 33 * n bytes.
C5_EncodePadsRentCollector ==
    (ty = "Multisig" /\ pc = "serialized") =>
      LET enc == Slice(data, DISCRIMINATOR_LEN, Len(data))
      IN  /\ Len(enc) = 124 + 33 * Len(rec.members)
          /\ At(enc, 86) = IF rec.rent_collector.some THEN 1 ELSE 0
          /\ Slice(enc, 87, 119) = IF rec.rent_collector.some
                                   THEN rec.rent_collector.value
                                   ELSE Zeros(32)
          /\ At(enc, 119) = rec.bump

C5_Witness ==
    /\ ty = "Multisig" /\ pc = "serialized"
    /\ ~rec.rent_collector.some
    /\ Len(rec.members) = 2
    /\ Len(data) = 8 + 124 + 66

\* C6: a Multisig encoded by this codec and then decoded by it is the same
\* record, with rent_collector present or absent.
C6_MultisigRoundTrip ==
    (ty = "Multisig" /\ pc = "decoded") =>
      (result.tag = "Ok" /\ result.value = rec)

\* C7: a Multisig whose rent_collector is present, and every Proposal,
\* VaultTransaction, ConfigTransaction, SpendingLimit and ProgramConfig,
\* decodes from (8 bytes ++ its encoding) to the same record.
C7_RoundTripSameConvention ==
    (pc = "decoded" /\ (ty = "Multisig" => rec.rent_collector.some)) =>
      (result.tag = "Ok" /\ result.value = rec /\ result.offset = Len(data))

C7_Witness ==
    /\ pc = "decoded" /\ ty = "Multisig"
    /\ rec.rent_collector.some
    /\ Len(rec.members) = 2
    /\ result.tag = "Ok" /\ result.value = rec

\* C8: bytes after the last declared field do not change the result: a
\* buffer that decodes, with any bytes appended, decodes to the same record.
C8_TrailingBytesIgnored ==
    (pc = "redecoded" /\ edit.op = "append" /\ base.result.tag = "Ok") =>
      result = base.result

C8_Witness ==
    /\ pc = "redecoded" /\ edit.op = "append"
    /\ result.tag = "Ok"
    /\ Len(data) = result.offset + 40
    /\ ty = "VaultTransaction"

\* The buffer holds a ConfigTransaction actions count above 0 and the byte
\* of the first action's ordinal.
HasFirstAction == Len(data) > 85 /\ AsUsize(U32FromLe(Slice(data, 81, 85))) > 0

\* C9: an ordinal one past the highest known variant (6 for Proposal.status,
\* 3 for SpendingLimit.period, 8 for a ConfigTransaction action) makes
\* try_from_slice return the unknown-variant error, and no record.
C9_UnknownOrdinalRejected ==
    Decoded =>
      /\ (ty = "Proposal" /\ Len(data) > 48 /\ At(data, 48) = 6)
           => result = Err("UnexpectedVariant")
      /\ (ty = "SpendingLimit" /\ Len(data) > 113 /\ At(data, 113) = 3)
           => result = Err("UnexpectedVariant")
      /\ (ty = "ConfigTransaction" /\ HasFirstAction /\ At(data, 85) = 8)
           => result = Err("UnexpectedVariant")

C9_Witness ==
    /\ ty = "ConfigTransaction" /\ pc = "redecoded"
    /\ HasFirstAction /\ At(data, 85) = 8
    /\ base.result.tag = "Ok"
    /\ result = Err("UnexpectedVariant")

\* Every narrowed-prefix list of message m is within the width of its count.
RECURSIVE AllWithin(_, _)
AllWithin(lists, max) ==
    lists = <<>> \/ (Len(Head(lists)) <= max /\ AllWithin(Tail(lists), max))

WithinPrefixWidth(m) ==
    /\ Len(m.account_keys) <= 255
    /\ Len(m.instructions) <= 255
    /\ Len(m.address_table_lookups) <= 255
    /\ AllWithin([i \in 1..Len(m.instructions) |-> m.instructions[i].account_indexes], 255)
    /\ AllWithin([i \in 1..Len(m.instructions) |-> m.instructions[i].data], 65535)
    /\ AllWithin([i \in 1..Len(m.address_table_lookups) |->
                    m.address_table_lookups[i].writable_indexes], 255)
    /\ AllWithin([i \in 1..Len(m.address_table_lookups) |->
                    m.address_table_lookups[i].readonly_indexes], 255)

\* C10: a rent_collector presence flag that is neither 0 nor 1 makes
\* Multisig::try_from_slice fail with an error; it is not taken for "absent".
C10_BadFlagRejected ==
    (ty = "Multisig" /\ Decoded /\ Len(data) > 94 /\ At(data, 94) \notin {0, 1})
      => result.tag = "Err"

\* C11: encoding a message with a SmallVecU8 of more than 255 elements or a
\* SmallVecU16 of more than 65535 elements fails with the Overflow error; no
\* bytes with a count reduced modulo 256 / 65536 are returned.
C11_OversizeListOverflows ==
    (ty = "TransactionMessage" /\ call.fn = "to_vec" /\ ~WithinPrefixWidth(rec))
      => ret = Err("Overflow")

\* A 1-byte count and that many bytes.
Counted1(bytes) == <<Len(bytes)>> \o bytes

\* A 2-byte little-endian count and that many bytes.
Counted2(bytes) == <<Len(bytes) % 256, Len(bytes) \div 256>> \o bytes

InstructionLayout(ix) ==
    <<ix.program_id_index>> \o Counted1(ix.account_indexes) \o Counted2(ix.data)

LookupLayout(l) ==
    l.account_key \o Counted1(l.writable_indexes) \o Counted1(l.readonly_indexes)

MessageLayout(m) ==
    <<m.num_signers, m.num_writable_signers, m.num_writable_non_signers>>
      \o <<Len(m.account_keys)>> \o Concat(m.account_keys)
      \o <<Len(m.instructions)>>
      \o Concat([i \in 1..Len(m.instructions) |-> InstructionLayout(m.instructions[i])])
      \o <<Len(m.address_table_lookups)>>
      \o Concat([i \in 1..Len(m.address_table_lookups) |->
                   LookupLayout(m.address_table_lookups[i])])

\* C12: the bytes of a TransactionMessage whose lists are within their count
\* width are the 3 header bytes, the 1-byte-counted keys, the 1-byte-counted
\* instructions (program index, 1-byte-counted account indexes, 2-byte
\* little-endian-counted data) and the 1-byte-counted lookups (key and two
\* 1-byte-counted index lists); decoding them gives the message back.
C12_MessageLayoutRoundTrip ==
    (/\ ty = "TransactionMessage" /\ pc \in {"serialized", "decoded"}
     /\ WithinPrefixWidth(rec))
    => /\ data = MessageLayout(rec)
       /\ ret = Ok(data, Len(data))
       /\ pc = "decoded" => result = Ok(rec, Len(data))

C12_Witness ==
    /\ ty = "TransactionMessage" /\ pc = "decoded"
    /\ Len(rec.account_keys) = 2
    /\ Len(rec.instructions) = 1
    /\ Len(rec.instructions[1].account_indexes) = 2
    /\ Len(rec.instructions[1].data) = 300
    /\ Len(rec.address_table_lookups) = 1
    /\ Len(data) = 3 + 65 + (1 + 1 + 3 + 302) + (1 + 32 + 2 + 3)
    /\ result.tag = "Ok" /\ result.value = rec

\* C13: VaultTransaction::try_from_slice of an account whose message bytes
\* are an encoded TransactionMessage m returns a record whose message has the
\* header counts, keys, instructions and lookups of m.
C13_EmbeddedMessageDecodes ==
    (ty = "TransactionMessage" /\ pc = "vault_decoded" /\ WithinPrefixWidth(rec))
      => (result.tag = "Ok" /\ result.value.message = rec)

\* A get_*_pda function was called.
IsPdaCall == call.fn \in PdaFunctions

\* The candidate address of the last call for bump seed b, and whether it is
\* off the curve.
CalledProgramId == ProgramIdOrDefault(call.args.program_id)
CandidateOf(b) == Candidate(Concat(call.seeds), b, CalledProgramId)
OffCurve(b) == b \notin OnCurveBumpSeeds(Concat(call.seeds), CalledProgramId)

C15_ExhaustionIsAnError ==
    (IsPdaCall /\ \A b \in 0..255 : ~OffCurve(b)) =>
      ret = Err("DerivationExhausted")

\* Two calls name the same function with equal arguments, an absent program
\* id counting as the canonical one.
SameArguments(c1, c2) ==
    /\ c1.fn = c2.fn
    /\ [c1.args EXCEPT !.program_id = None] = [c2.args EXCEPT !.program_id = None]
    /\ \/ c1.args.program_id = c2.args.program_id
       \/ {c1.args.program_id, c2.args.program_id} = {None, Some(SQUADS_PROGRAM_ID)}

Utf8(literal) ==
    CASE literal = "multisig" -> <<109, 117, 108, 116, 105, 115, 105, 103>>
      [] literal = "program_config" ->
           <<112, 114, 111, 103, 114, 97, 109, 95, 99, 111, 110, 102, 105, 103>>
      [] literal = "vault" -> <<118, 97, 117, 108, 116>>
      [] literal = "transaction" -> <<116, 114, 97, 110, 115, 97, 99, 116, 105, 111, 110>>
      [] literal = "proposal" -> <<112, 114, 111, 112, 111, 115, 97, 108>>
      [] literal = "spending_limit" ->
           <<115, 112, 101, 110, 100, 105, 110, 103, 95, 108, 105, 109, 105, 116>>
      [] literal = "ephemeral_signer" ->
           <<101, 112, 104, 101, 109, 101, 114, 97, 108, 95, 115, 105, 103, 110, 101, 114>>

\* The 8 little-endian bytes of a 64-bit index kept as four 16-bit limbs.
Le8(v) ==
    <<v[1] % 256, v[1] \div 256, v[2] % 256, v[2] \div 256,
      v[3] % 256, v[3] \div 256, v[4] % 256, v[4] \div 256>>

\* The seed list the derivation instance fn is to use for arguments a.
SeedList(fn, a) ==
    CASE fn = "get_program_config_pda" -> <<Utf8("multisig"), Utf8("program_config")>>
      [] fn = "get_multisig_pda" -> <<Utf8("multisig"), Utf8("multisig"), a.create_key>>
      [] fn = "get_vault_pda" ->
           <<Utf8("multisig"), a.multisig_pda, Utf8("vault"), <<a.vault_index>> >>
      [] fn = "get_transaction_pda" ->
           <<Utf8("multisig"), a.multisig_pda, Utf8("transaction"),
             Le8(a.transaction_index)>>
      [] fn = "get_proposal_pda" ->
           <<Utf8("multisig"), a.multisig_pda, Utf8("transaction"),
             Le8(a.transaction_index), Utf8("proposal")>>
      [] fn = "get_spending_limit_pda" ->
           <<Utf8("multisig"), a.multisig_pda, Utf8("spending_limit"), a.create_key>>
      [] fn = "get_ephemeral_signer_pda" ->
           <<Utf8("multisig"), a.transaction_pda, Utf8("ephemeral_signer"),
             <<a.ephemeral_signer_index>> >>

\* C17: each get_*_pda function passes exactly its ordered seed list, and the
\* address it returns is the hash of these seeds, the bump, the program id and
\* the marker.
C17_SeedLists ==
    IsPdaCall =>
      /\ call.seeds = SeedList(call.fn, call.args)
      /\ ret.tag = "Ok" =>
           ret.value.address.sha256 =
             Concat(SeedList(call.fn, call.args)) \o <<ret.value.bump>>
               \o CalledProgramId \o PDA_MARKER

C17_Witness ==
    /\ call.fn = "get_proposal_pda"
    /\ call.args.transaction_index = <<513, 0, 0, 256>>
    /\ Len(call.seeds) = 5
    /\ call.seeds[4] = <<1, 2, 0, 0, 0, 0, 0, 1>>
    /\ call.seeds[5] = Utf8("proposal")
    /\ ret.tag = "Ok" /\ ret.value.bump = 255

\* Bit i of m is set.
BitSet(m, i) == (m \div (2 ^ i)) % 2 = 1

\* The flags of a list.
Listed(permissions) == { permissions[i] : i \in 1..Len(permissions) }

\* C18: for every mask 0..255, has_initiate() of Permissions::from_mask(m)
\* holds iff bit 0 of m is set, has_vote() iff bit 1, has_execute() iff bit 2;
\* from_vec(list) has exactly the bits of the listed flags, full() has mask 7
\* and none() has mask 0.
C18_PermissionBits ==
    ty = "Permissions" =>
      /\ (pc = "asked" /\ call.fn = "from_mask" /\ ret.fn = "has_initiate")
           => (ret.value <=> BitSet(call.arg, 0))
      /\ (pc = "asked" /\ call.fn = "from_mask" /\ ret.fn = "has_vote")
           => (ret.value <=> BitSet(call.arg, 1))
      /\ (pc = "asked" /\ call.fn = "from_mask" /\ ret.fn = "has_execute")
           => (ret.value <=> BitSet(call.arg, 2))
      /\ call.fn = "from_mask" => rec.mask = call.arg
      /\ call.fn = "from_vec" =>
           rec.mask = (IF "Initiate" \in Listed(call.arg) THEN 1 ELSE 0)
                        + (IF "Vote" \in Listed(call.arg) THEN 2 ELSE 0)
                        + (IF "Execute" \in Listed(call.arg) THEN 4 ELSE 0)
      /\ call.fn = "full" => rec.mask = 7
      /\ call.fn = "none" => rec.mask = 0

C18_Witness ==
    /\ ty = "Permissions" /\ pc = "asked"
    /\ call.fn = "from_mask" /\ call.arg = 250
    /\ ret.fn = "has_vote" /\ ret.value = TRUE

\* The members of m whose permission mask has bit 1 set.
Voters(m) == { i \in 1..Len(m.members) : (m.members[i].permissions.mask \div 2) % 2 = 1 }

\* C19: for every Multisig that try_from_slice returned, num_voters() is the
\* number of members whose mask has bit 1 set, and cutoff() returns
\* num_voters - threshold + 1 and does not fault, whatever the threshold.
C19_VotersAndCutoff ==
    (ty = "Multisig" /\ pc = "used") =>
      /\ call.fn = "num_voters" =>
           ret = [tag |-> "Ok", value |-> Cardinality(Voters(result.value))]
      /\ call.fn = "cutoff" =>
           ret = [tag |-> "Ok",
                  value |-> Cardinality(Voters(result.value)) - result.value.threshold + 1]

\* C20: a Multisig that try_from_slice returns has a threshold that is at
\* most the number of its members holding the vote permission.
C20_ThresholdWithinVoters ==
    (ty = "Multisig" /\ result.tag = "Ok") =>
      result.value.threshold <= Cardinality(Voters(result.value))


\* Where Multisig::try_from_slice starts to read the members of the buffer:
\* after flag, key (with flag 1 only), bump and the 4 bytes of the count.
MembersStart == IF At(data, 94) = 1 THEN 132 ELSE 100

\* The u32 count in the 4 bytes in front of the members.
MembersCount == AsUsize(U32FromLe(Slice(data, MembersStart - 4, MembersStart)))

\* Member i (from 0) as the buffer holds it.
MemberAt(i) ==
    [key |-> Slice(data, MembersStart + 33 * i, MembersStart + 33 * i + 32),
     permissions |-> from_mask(At(data, MembersStart + 33 * i + 32))]

\* The members part of C21: a record returned holds as many members as the
\* count says, member i being bytes [start + 33 i, start + 33 i + 33).
MembersAsCounted ==
    (ty = "Multisig" /\ result.tag = "Ok") =>
      /\ Len(result.value.members) = MembersCount
      /\ \A i \in 1..Len(result.value.members) :
            result.value.members[i] = MemberAt(i - 1)

\* C21: when Multisig::try_from_slice succeeds the members list has as many
\* entries as the u32 count after the bump byte says, entry i being the key
\* and mask at bytes [start + 33 i, start + 33 i + 33); when the buffer holds
\* fewer than 33 bytes for a counted member the call returns an error.
C21_MembersMatchCount ==
    /\ MembersAsCounted
    /\ (/\ ty = "Multisig" /\ Decoded
        /\ Len(data) > 94 /\ Len(data) >= MembersStart
        /\ (Len(data) - MembersStart) \div 33 < MembersCount)
       => result.tag = "Err"

\* The message try_compile returned, and the instructions it was given.
Compiled == ret.value
Given == rec.instructions

\* C22: a message that try_compile returns has num_writable_signers <=
\* num_signers and num_signers + num_writable_non_signers <= the number of
\* account keys; the vault key is account key 0 and counted as a writable
\* signer; there is one compiled instruction per instruction given, in the
\* order given; address_table_lookups is empty; for a single system transfer
\* from the vault num_signers = 1 and num_writable_signers = 1.
C22_CompiledMessageShape ==
    (call.fn = "try_compile" /\ ret.tag = "Ok") =>
      /\ Compiled.num_writable_signers <= Compiled.num_signers
      /\ Compiled.num_signers + Compiled.num_writable_non_signers
           <= Len(Compiled.account_keys)
      /\ Compiled.account_keys[1] = rec.vault_key
      /\ Compiled.num_writable_signers >= 1
      /\ Len(Compiled.instructions) = Len(Given)
      /\ \A i \in 1..Len(Given) :
           LET ix == Compiled.instructions[i]
           IN  /\ Compiled.account_keys[ix.program_id_index + 1] = Given[i].program_id
               /\ Len(ix.account_indexes) = Len(Given[i].accounts)
               /\ \A j \in 1..Len(ix.account_indexes) :
                    Compiled.account_keys[ix.account_indexes[j] + 1]
                      = Given[i].accounts[j].pubkey
               /\ ix.data = Given[i].data
      /\ Compiled.address_table_lookups = <<>>
      /\ (/\ Len(Given) = 1
          /\ Given[1].program_id = Key(0)
          /\ Given[1].data[1] = 2
          /\ Given[1].accounts[1].pubkey = rec.vault_key)
         => (Compiled.num_signers = 1 /\ Compiled.num_writable_signers = 1)

C22_Witness ==
    /\ call.fn = "try_compile" /\ ret.tag = "Ok"
    /\ rec.vault_key = Key(6)
    /\ Len(Given) = 2
    /\ Given[1].accounts[1].pubkey = Key(3)
    /\ Compiled.num_signers = 3
    /\ Compiled.num_writable_signers = 2
    /\ Compiled.account_keys[1] = Key(6)

\* C24: is_static_writable_index(k) is true iff k < account_keys.len and
\* (k < num_writable_signers or num_signers <= k < num_signers +
\* num_writable_non_signers): false for every k >= account_keys.len and for
\* every read-only signer index; is_signer_index(k) is true iff k < num_signers.
C24_IndexClasses ==
    /\ call.fn = "is_static_writable_index" =>
         LET k == call.key_index
         IN  /\ ret.value =
                  (/\ k < Len(rec.account_keys)
                   /\ \/ k < rec.num_writable_signers
                      \/ (rec.num_signers <= k
                            /\ k < rec.num_signers + rec.num_writable_non_signers))
             /\ k >= Len(rec.account_keys) => ret.value = FALSE
             /\ (rec.num_writable_signers <= k /\ k < rec.num_signers)
                  => ret.value = FALSE
    /\ call.fn = "is_signer_index" => ret.value = (call.key_index < rec.num_signers)

C24_Witness ==
    /\ call.fn = "is_static_writable_index"
    /\ call.key_index = 3
    /\ Len(rec.account_keys) = 3
    /\ rec.num_writable_signers = 255
    /\ ret.value = FALSE

\* What the claims about the builders read: the instruction the last call
\* returned, the program id it was to use, and the bytes of an optional key
\* and of a memo.
Built == ret.value
ExpectedProgramId == IF rec.program_id.some THEN rec.program_id.value ELSE SQUADS_PROGRAM_ID
OptionalKeyBytes(o) == IF o.some THEN <<1>> \o o.value ELSE <<0>>
MemoBytes(m) == IF m.some THEN <<1, Len(m.value), 0, 0, 0>> \o m.value ELSE <<0>>
ArgsBytes ==
    CASE rec.fn = "multisig_create_v2" ->
           OptionalKeyBytes(rec.args.config_authority)
           \o U16ToLe(rec.args.threshold)
           \o <<Len(rec.args.members), 0, 0, 0>> \o SerializeMembers(rec.args.members)
           \o U32ToLe(rec.args.time_lock)
           \o OptionalKeyBytes(rec.args.rent_collector)
           \o MemoBytes(rec.args.memo)
      [] rec.fn = "proposal_create" ->
           U64ToLe(rec.args.transaction_index) \o <<rec.args.draft>>
      [] rec.fn \in {"proposal_approve", "proposal_reject", "proposal_cancel"} ->
           MemoBytes(rec.args.memo)
      [] rec.fn = "vault_transaction_create" ->
           <<rec.args.vault_index, rec.args.ephemeral_signers,
             Len(rec.args.transaction_message), 0, 0, 0>>
           \o rec.args.transaction_message \o MemoBytes(rec.args.memo)
      [] rec.fn = "config_transaction_create" ->
           BorshSerialize(VecT(ConfigActionSchema), rec.args.actions)
           \o MemoBytes(rec.args.memo)
      [] rec.fn = "spending_limit_use" ->
           U64ToLe(rec.args.amount) \o <<rec.args.decimals>> \o MemoBytes(rec.args.memo)
      [] OTHER -> <<>>

\* C25: the data of every builder is the first 8 bytes of the hash of
\* "global:<its own name>", then the encoding of its arguments, and nothing
\* after it; vault_transaction_execute, config_transaction_execute and
\* proposal_activate give exactly 8 bytes; the program id is the supplied one,
\* or the canonical id when none is supplied.
C25_DataIsDiscriminatorThenArgs ==
    pc = "built" =>
      /\ Len(Built.data) >= 8
      /\ SubSeq(Built.data, 1, 8) = Sha256Prefix("global:" \o rec.fn)
      /\ SubSeq(Built.data, 9, Len(Built.data)) = ArgsBytes
      /\ rec.fn \in {"vault_transaction_execute", "config_transaction_execute",
                     "proposal_activate"} => Len(Built.data) = 8
      /\ Built.program_id = ExpectedProgramId

C25_Witness ==
    /\ pc = "built"
    /\ call.fn = "multisig_create_v2"
    /\ rec.program_id = None
    /\ rec.args.config_authority.some
    /\ ~rec.args.rent_collector.some
    /\ Len(rec.args.members) = 2
    /\ rec.args.memo = Some(<<104, 105>>)
    /\ Built.program_id = SQUADS_PROGRAM_ID
    /\ Len(Built.data) = 125

\* The account at the position of an optional account o that is writable when
\* present (w) and a signer when present (s).
OptionalSlot(o, w, s) ==
    IF o.some THEN [pubkey |-> o.value, is_signer |-> s, is_writable |-> w]
    ELSE [pubkey |-> ExpectedProgramId, is_signer |-> FALSE, is_writable |-> FALSE]

\* C26: spending_limit_use gives exactly 10 accounts and
\* config_transaction_execute 6 + the number of spending-limit accounts; an
\* absent optional account is replaced at its position by the program id,
\* read-only and not a signer; a present one stands there with its own flags
\* (rent_payer writable signer, mint and token program read-only, the token
\* accounts writable), so no other account changes its position.
C26_OptionalAccountsKeepPositions ==
    /\ (pc = "built" /\ rec.fn = "spending_limit_use") =>
         /\ Len(Built.accounts) = 10
         /\ [i \in 1..6 |-> Built.accounts[i].pubkey]
              = <<Key(1), Key(2), Key(3), Key(4), Key(5), Key(0)>>
         /\ Built.accounts[7] = OptionalSlot(rec.mint, FALSE, FALSE)
         /\ Built.accounts[8] = OptionalSlot(rec.vault_token_account, TRUE, FALSE)
         /\ Built.accounts[9] = OptionalSlot(rec.destination_token_account, TRUE, FALSE)
         /\ Built.accounts[10] = OptionalSlot(rec.token_program, FALSE, FALSE)
    /\ (pc = "built" /\ rec.fn = "config_transaction_execute") =>
         /\ Len(Built.accounts) = 6 + Len(rec.spending_limit_accounts)
         /\ [i \in 1..4 |-> Built.accounts[i].pubkey]
              = <<Key(1), Key(4), Key(2), Key(3)>>
         /\ Built.accounts[5] = OptionalSlot(rec.rent_payer, TRUE, TRUE)
         /\ Built.accounts[6] = AccountMetaNewReadonly(Key(0), FALSE)
         /\ \A i \in 1..Len(rec.spending_limit_accounts) :
              Built.accounts[6 + i]
                = AccountMetaNew(rec.spending_limit_accounts[i], FALSE)

C26_Witness ==
    /\ pc = "built"
    /\ call.fn = "config_transaction_execute"
    /\ rec.rent_payer = None
    /\ rec.program_id = None
    /\ Len(rec.spending_limit_accounts) = 2
    /\ Len(Built.accounts) = 8
    /\ Built.accounts[5] = AccountMetaNewReadonly(SQUADS_PROGRAM_ID, FALSE)
    /\ Built.accounts[7].pubkey = Key(6)

\* The members of the call that have the vote permission (bit 1 of the mask).
VotersOfCall == Cardinality(Voters(rec))

\* C23 as stated: create_multisig returns InvalidThreshold when threshold = 0
\* or threshold exceeds the number of voting members, NoVotingMembers when
\* no member votes and threshold >= 1, each before any RPC request.
C23_ErrorsAsStated ==
    pc = "returned" =>
      /\ (rec.threshold = 0 \/ rec.threshold > VotersOfCall)
           => (ret = Err("InvalidThreshold") /\ rpc = <<>>)
      /\ (VotersOfCall = 0 /\ rec.threshold >= 1)
           => (ret = Err("NoVotingMembers") /\ rpc = <<>>)

\* C23: create_multisig returns InvalidThreshold when threshold = 0, or when
\* some member votes and threshold exceeds the number of voting members, and
\* NoVotingMembers when threshold >= 1 and no member votes; in each of these
\* cases it never waits for the RPC node and its request log stays empty.
C23_ErrorsByPrecedence ==
    LET Rejected(e) ==
            /\ pc \in {"called", "returned"}
            /\ rpc = <<>>
            /\ pc = "returned" => ret = Err(e)
    IN  /\ rec.threshold = 0 => Rejected("InvalidThreshold")
        /\ (rec.threshold >= 1 /\ VotersOfCall = 0) => Rejected("NoVotingMembers")
        /\ (VotersOfCall >= 1 /\ rec.threshold > VotersOfCall) => Rejected("InvalidThreshold")

C23_Witness ==
    /\ pc = "returned"
    /\ rec.threshold = 1
    /\ Len(rec.members) = 2
    /\ VotersOfCall = 0
    /\ ret = Err("NoVotingMembers")
    /\ rpc = <<>>

\* C27: the treasury key create_multisig takes from the program-config
\* account (bytes 40..72) is the treasury field ProgramConfig::try_from_slice
\* returns for the same bytes, whenever those decode.
C27_TreasuryAsDecoded ==
    (result.tag = "Ok" /\ pc # "called" /\ pc # "get_account" /\ locals # <<>>)
      => locals.treasury = result.value.treasury

\* C28: for every byte string b, Multisig::deserialize on a slice holding b
\* and Multisig::deserialize_reader on a reader yielding b return the same
\* result: the same record, or both an error.
C28_EntryPointsAgree ==
    call.fn = "Multisig::deserialize" =>
      \/ ret.slice.tag = "Err" /\ ret.reader.tag = "Err"
      \/ /\ ret.slice.tag = "Ok"
         /\ ret.reader.tag = "Ok"
         /\ ret.slice.value = ret.reader.value

\* C29: two buffers of equal length that differ only in their first 8 bytes
\* decode alike for every record type: try_from_slice returns the same
\* record for both, or fails for both.
C29_DiscriminatorNotCompared ==
    (pc = "redecoded" /\ edit.op = "corrupt" /\ edit.at < DISCRIMINATOR_LEN) =>
      /\ Len(data) = Len(base.data)
      /\ SubSeq(data, DISCRIMINATOR_LEN + 1, Len(data))
           = SubSeq(base.data, DISCRIMINATOR_LEN + 1, Len(data))
      /\ \/ result.tag = "Ok" /\ base.result = result
         \/ result.tag # "Ok" /\ base.result.tag # "Ok"

C29_Witness ==
    /\ pc = "redecoded"
    /\ ty = "VaultTransaction"
    /\ edit = [op |-> "corrupt", at |-> 7, val |-> 255]
    /\ data # base.data
    /\ result.tag = "Ok"
    /\ base.result = result

\* The bytes a derivation hashes before the bump seed, and the arguments of
\* a derivation other than the program id.
SeedBytes(c) == Concat(c.seeds)
VariableInputs(c) == [k \in DOMAIN c.args \ {"program_id"} |-> c.args[k]]

\* C30: the concatenated seeds of the seven derivations have the fixed
\* lengths 22 (program config), 46 (vault), 48 (multisig), 57 (ephemeral
\* signer), 59 (transaction), 67 (proposal) and 86 (spending limit), and two
\* derivations hash the same seed bytes only if they are the same function
\* called with equal inputs.
C30_SeedBytesTellDerivationsApart ==
    call # NoCall =>
      /\ Len(SeedBytes(call)) =
           CASE call.fn = "get_program_config_pda" -> 22
             [] call.fn = "get_vault_pda" -> 46
             [] call.fn = "get_multisig_pda" -> 48
             [] call.fn = "get_ephemeral_signer_pda" -> 57
             [] call.fn = "get_transaction_pda" -> 59
             [] call.fn = "get_proposal_pda" -> 67
             [] call.fn = "get_spending_limit_pda" -> 86
      /\ SeedBytes(seen.call) = SeedBytes(call) =>
           /\ seen.call.fn = call.fn
           /\ VariableInputs(seen.call) = VariableInputs(call)

C30_Witness ==
    /\ call # NoCall
    /\ seen.call.fn = "get_transaction_pda"
    /\ call.fn = "get_proposal_pda"
    /\ seen.call.args = call.args
    /\ Len(SeedBytes(seen.call)) = 59
    /\ Len(SeedBytes(call)) = 67

=============================================================================
